---------------------------- MODULE Spec2Model ----------------------------
(***************************************************************************)
(* A state-machine model of lib/xdg-app-installation.c: the installation   *)
(* API that installs, updates, uninstalls and queries application/runtime  *)
(* refs of one installation location.                                      *)
(*                                                                         *)
(* Each caller (a thread or process using the same installation location)  *)
(* runs one call at a time; a call is a sequence of steps, one per access  *)
(* to the shared installation (deploy tree, pointers, local repository,    *)
(* remote configuration, lock file).  The FlatpakDir operations are        *)
(* implemented in xdg-app-dir.c, which is not among the sources at hand:   *)
(* they are modelled by their contract, and each of them may fail.         *)
(***************************************************************************)
EXTENDS Integers, Sequences, FiniteSets, TLC

(***************************************************************************)
(* Bounds of the model.                                                    *)
(***************************************************************************)
\* Calls of install/install_bundle/update/uninstall started in one behaviour.
MaxCalls == 2
\* Origin remotes that install_bundle may have configured at one time.
MaxOrigins == 2

(***************************************************************************)
(* Values.                                                                 *)
(***************************************************************************)
Procs == {"p1", "p2"}

\* A NULL string (char *) argument or result.
NULL == "NULL"

FLATPAK_REF_KIND_APP == "app"
FLATPAK_REF_KIND_RUNTIME == "runtime"
Kinds == {FLATPAK_REF_KIND_APP, FLATPAK_REF_KIND_RUNTIME}

\* flatpak_get_arch(): the host's canonical architecture.
flatpak_get_arch == "x86_64"

\* A full ref "<kind>/<name>/<arch>/<branch>" is kept as its four parts, which
\* is what g_strsplit (full_ref, "/", -1) yields (get_ref, line 313).
flatpak_compose_ref(is_app, name, branch, arch) ==
  << IF is_app THEN "app" ELSE "runtime",
     name,
     IF arch = NULL THEN flatpak_get_arch ELSE arch,
     IF branch = NULL THEN "master" ELSE branch >>

\* The (kind, name, arch, branch) arguments callers pass.
Targets ==
  { [kind |-> FLATPAK_REF_KIND_APP, name |-> "N", arch |-> NULL, branch |-> NULL],
    [kind |-> FLATPAK_REF_KIND_APP, name |-> "N", arch |-> NULL, branch |-> "beta"],
    [kind |-> FLATPAK_REF_KIND_RUNTIME, name |-> "M", arch |-> NULL, branch |-> NULL] }

TargetRef(t) ==
  flatpak_compose_ref(t.kind = FLATPAK_REF_KIND_APP, t.name, t.branch, t.arch)

Refs == { TargetRef(t) : t \in Targets }
Names == { t.name : t \in Targets }

AppMaster == <<"app", "N", "x86_64", "master">>
AppBeta == <<"app", "N", "x86_64", "beta">>
RuntimeM == <<"runtime", "M", "x86_64", "master">>

Commits == {"c1", "c2"}
NoCommit == "none"

\* Remotes configured before the first call, and the names
\* flatpak_dir_create_origin_remote can give to the remote of a bundle of name n
\* ("<n>-origin", then "<n>-1-origin").
ConfiguredRemotes == <<"r1", "r2">>
OriginNames ==
  [ n \in Names |-> IF n = "N" THEN <<"N-origin", "N-1-origin">>
                               ELSE <<"M-origin", "M-1-origin">> ]
AllOriginNames == UNION { { OriginNames[n][i] : i \in 1..2 } : n \in Names }
RemoteNames == { ConfiguredRemotes[i] : i \in 1..Len(ConfiguredRemotes) } \cup AllOriginNames

\* Priority of a remote (xa.prio); origin remotes get the default.
RemotePrio(r) == IF r = "r2" THEN 2 ELSE 1

\* Errors a call can end with.
NoError == "none"
ALREADY_INSTALLED == "AlreadyInstalled"
NOT_INSTALLED == "NotInstalled"
NOT_FOUND == "NotFound"
CANCELLED == "Cancelled"
IO_ERROR == "IOError"
BUSY == "Busy"
MALFORMED_BUNDLE == "MalformedBundle"

\* A NULL FlatpakInstalledRef (also the FALSE of uninstall's gboolean), a NULL
\* full ref string, and the lock file held by nobody.
NullRef == [null |-> TRUE]
NoRef == << >>
NoLock == "nobody"

VARIABLES
  \* ---- the installation location (shared, persisted) ----
  deploy_base,     \* refs whose deploy directory exists
  deployed,        \* ref -> the commit directories under its deploy directory
  active,          \* ref -> the commit its "active" link names, or NoCommit
  origin,          \* ref -> the remote recorded as its origin, or NULL
  current,         \* app name -> the full ref its "current" link names, or NoRef
  remotes,         \* the configured remotes, in the order they were added
  repo_refs,       \* <<remote, ref>> -> the commit of the local ref remote:ref
  changed,         \* the ".changed" marker has been touched
  lock,            \* the holder of the installation's lock file
  published,       \* r1 advertises the newer commit of AppMaster
  \* ---- the callers ----
  pc,              \* caller -> where it is in its call
  call,            \* caller -> the arguments of its call
  cancel,          \* caller -> its GCancellable has been cancelled
  loc,             \* caller -> the call's local variables
  result,          \* caller -> the value the call returned
  err,             \* caller -> the GError the call set
  trace,           \* caller -> the steps the call has performed, in order
  ncalls,          \* calls started so far
  \* ---- read queries ----
  lastQuery,       \* what the read query that has just returned gave its caller
  \* ---- one OstreeAsyncProgress and the caller's FlatpakProgressCallback ----
  progress,        \* the progress object of the running install or update
  reported,        \* the percents the caller's callback was given, in order
  invocation,      \* the invocation of progress_cb that is in the caller's callback
  \* ---- history ----
  last_install,    \* the latest install not yet overwritten (see TrackInstall)
  before,          \* caller -> what the installation was when its call started
                   \* (kept for the caller p1, whose calls the properties follow)
  \* ---- ref strings ----
  ref_io           \* the latest composition or decomposition of a ref string

storeVars == << deploy_base, deployed, active, origin, current, remotes,
                repo_refs, changed, lock, published >>
procVars == << pc, call, cancel, loc, result, err, trace, ncalls >>
progVars == << progress, reported, invocation >>
histVars == << last_install, before >>
refVars == << ref_io >>
vars == << storeVars, procVars, lastQuery, progVars, histVars, refVars >>

\* The persisted state of the installation: the deploy directories with what
\* they hold, the active and current pointers, the configured remotes and the
\* change marker.
Persisted == << deploy_base, deployed, active, origin, current, remotes, changed >>

\* What is remembered of the start of a call: the persisted state, and
\* whether r1 had published its newer commit.  Nothing when no call is running.
Snapshot == [state |-> Persisted, published |-> published]
NoSnapshot == [state |-> << >>, published |-> FALSE]

(***************************************************************************)
(* The initial states: two configured remotes and every caller idle; the   *)
(* installation is empty, or holds AppMaster as an earlier install from r1 *)
(* left it (deployed at c1, active, current).                              *)
(***************************************************************************)
NoCall ==
  [op |-> "none", kind |-> FLATPAK_REF_KIND_APP, name |-> "N", arch |-> NULL,
   branch |-> NULL, remote_name |-> NULL, no_pull |-> FALSE, no_deploy |-> FALSE]

\* History: the latest successful install (or bundle install) whose effect on
\* the deploy tree and the pointers nothing but an uninstall of the same ref
\* has touched since: its ref, the current ref of its name before it, whether
\* the install has returned, and the caller of the uninstall that undoes it.
NoInstall == [ref |-> NoRef, cur |-> NoRef, returned |-> FALSE, undone_by |-> NULL]

\* No query has just returned; no progress object exists.
NoQuery == [op |-> "none"]
NoProgress == [connected |-> FALSE, last_progress |-> 0, finished |-> FALSE]
NoInvocation == [running |-> FALSE, faulted |-> FALSE]
NoRefIO == [op |-> "none"]

NoLocals ==
  [ref |-> NoRef, remote_name |-> NULL, remote |-> NULL, added_remote |-> FALSE,
   was_deployed |-> FALSE, dir_clone |-> FALSE, main_context |-> FALSE,
   \* history: the call has tested the deploy directory; what was true then
   checked |-> FALSE, base_existed |-> FALSE, was_cancelled |-> FALSE]

\* The test of the deploy directory, noted in the call's history.
Checked(l, ref, cancelled) ==
  [l EXCEPT !.ref = ref, !.checked = TRUE, !.base_existed = (ref \in deploy_base),
            !.was_cancelled = cancelled]

Init ==
  /\ \E inst \in SUBSET {AppMaster} :
       /\ deploy_base = inst
       /\ deployed = [r \in Refs |-> IF r \in inst THEN {"c1"} ELSE {}]
       /\ active = [r \in Refs |-> IF r \in inst THEN "c1" ELSE NoCommit]
       /\ origin = [r \in Refs |-> IF r \in inst THEN "r1" ELSE NULL]
       /\ current = [n \in Names |-> IF AppMaster \in inst /\ n = "N"
                                     THEN AppMaster ELSE NoRef]
       /\ repo_refs = [k \in RemoteNames \X Refs |->
                        IF k[1] = "r1" /\ k[2] \in inst THEN "c1" ELSE NoCommit]
       /\ changed = (inst # {})
  /\ remotes = ConfiguredRemotes
  /\ lock = NoLock
  /\ published = FALSE
  /\ pc = [p \in Procs |-> "idle"]
  /\ call = [p \in Procs |-> NoCall]
  /\ cancel = [p \in Procs |-> FALSE]
  /\ loc = [p \in Procs |-> NoLocals]
  /\ result = [p \in Procs |-> NullRef]
  /\ err = [p \in Procs |-> NoError]
  /\ trace = [p \in Procs |-> << >>]
  /\ ncalls = 0
  /\ lastQuery = NoQuery
  /\ progress = NoProgress
  /\ reported = << >>
  /\ invocation = NoInvocation
  /\ last_install = NoInstall
  /\ before = [p \in Procs |-> NoSnapshot]
  /\ ref_io = NoRefIO

(***************************************************************************)
(* Helpers.                                                                *)
(***************************************************************************)
SeqToSet(s) == { s[i] : i \in 1..Len(s) }

\* s without its elements equal to x.
SeqRemove(s, x) == SelectSeq(s, LAMBDA y : y # x)

\* One step of the call's record of what it did: the operation, and the
\* FlatpakDir instance it went through ("self" is priv->dir, the instance the
\* read queries use; "clone" is the call's flatpak_dir_clone).
Did(p, step, via) == trace' = [trace EXCEPT ![p] = Append(@, [step |-> step, via |-> via])]

\* The outcomes of a blocking operation that is given the call's cancellable:
\* it fails with Cancelled once the token has fired, and otherwise succeeds or
\* fails with an I/O (or transfer) error.
Outcomes(p) == IF cancel[p] THEN {CANCELLED} ELSE {NoError, IO_ERROR}

\* g_file_query_exists (file, cancellable): g_file_query_info returns NULL when
\* the cancellable has fired, so the file is then reported as not existing.
g_file_query_exists(exists, cancelled) == exists /\ ~cancelled

\* The call returns: res is the value returned, e the GError set.
Return(p, res, e) ==
  /\ pc' = [pc EXCEPT ![p] = "done"]
  /\ result' = [result EXCEPT ![p] = res]
  /\ err' = [err EXCEPT ![p] = e]

Goto(p, label) ==
  /\ pc' = [pc EXCEPT ![p] = label]
  /\ UNCHANGED << result, err >>

\* The history of installs, kept by every step of a caller: a successful
\* deploy of an install starts it, the return of that install completes it,
\* an uninstall of the same ref started after that return is noted as its
\* undoing, and any other change of the deploy tree or the pointers ends it.
TrackInstall(p) ==
  last_install' =
    IF /\ pc[p] \in {"install_deploy", "bundle_deploy"}
       /\ active'[loc[p].ref] # active[loc[p].ref]
      THEN [ref |-> loc[p].ref, cur |-> current[loc[p].ref[2]],
            returned |-> FALSE, undone_by |-> NULL]
    ELSE IF /\ pc[p] \in {"install_get_ref", "bundle_out"}
            /\ pc'[p] = "done" /\ err'[p] = NoError
            /\ loc[p].ref = last_install.ref
      THEN [last_install EXCEPT !.returned = TRUE]
    ELSE IF /\ pc[p] = "idle" /\ call'[p].op = "uninstall"
            /\ last_install.returned /\ last_install.undone_by = NULL
            /\ last_install.ref = flatpak_compose_ref(
                 call'[p].kind = FLATPAK_REF_KIND_APP, call'[p].name,
                 call'[p].branch, call'[p].arch)
      THEN [last_install EXCEPT !.undone_by = p]
    ELSE IF << deploy_base', deployed', active', current' >>
              = << deploy_base, deployed, active, current >>
      THEN last_install
    ELSE IF last_install.undone_by = p
      THEN last_install
    ELSE NoInstall

\* What every step of a transaction does besides its own work: the value a
\* query returned before it is stale, and the progress object is not involved.
Quiet(p) ==
  /\ lastQuery' = NoQuery
  /\ UNCHANGED << progVars, refVars >>
  /\ TrackInstall(p)
  /\ before' = [before EXCEPT ![p] = IF p # "p1" THEN @
                                     ELSE IF pc[p] = "idle" THEN Snapshot
                                     ELSE IF pc'[p] = "idle" THEN NoSnapshot
                                     ELSE @]

(***************************************************************************)
(* The remotes' catalogs (what listing a remote over the network yields).  *)
(* r1 advertises both branches of app N, and moves AppMaster from c1 to c2 *)
(* when it publishes; r2 advertises AppMaster (at another commit) and the  *)
(* runtime; the origin remote of a bundle advertises the refs of its name  *)
(* at the bundle's commit.                                                 *)
(***************************************************************************)
BundleCommit == "c1"

Advertised(remote, ref) ==
  CASE remote = "r1" /\ ref = AppMaster -> IF published THEN "c2" ELSE "c1"
    [] remote = "r1" /\ ref = AppBeta -> "c1"
    [] remote = "r2" /\ ref = AppMaster -> "c2"
    [] remote = "r2" /\ ref = RuntimeM -> "c1"
    [] remote \in SeqToSet(OriginNames[ref[2]]) -> BundleCommit
    [] OTHER -> NoCommit

(***************************************************************************)
(* FlatpakDir operations (xdg-app-dir.c), by their contract.  Each is the  *)
(* effect of the operation when it succeeds, on the whole installation.    *)
(***************************************************************************)
\* flatpak_dir_pull: the local ref remote:ref is set to the advertised commit.
CanPull(remote, ref) ==
  remote \in SeqToSet(remotes) /\ Advertised(remote, ref) # NoCommit

flatpak_dir_pull(remote, ref) ==
  /\ repo_refs' = [repo_refs EXCEPT ![<<remote, ref>>] = Advertised(remote, ref)]
  /\ UNCHANGED << deploy_base, deployed, active, origin, current, remotes,
                  changed, lock, published >>

\* flatpak_dir_deploy_install: creates the deploy directory, records the
\* origin, checks the pulled commit out, makes it active, makes an app the
\* current ref of its name, and touches the change marker.
CanDeployInstall(remote, ref) ==
  ref \notin deploy_base /\ repo_refs[<<remote, ref>>] # NoCommit

flatpak_dir_deploy_install(ref, remote) ==
  /\ deploy_base' = deploy_base \cup {ref}
  /\ origin' = [origin EXCEPT ![ref] = remote]
  /\ deployed' = [deployed EXCEPT ![ref] = {repo_refs[<<remote, ref>>]}]
  /\ active' = [active EXCEPT ![ref] = repo_refs[<<remote, ref>>]]
  /\ current' = IF ref[1] = "app" THEN [current EXCEPT ![ref[2]] = ref] ELSE current
  /\ changed' = TRUE
  /\ UNCHANGED << remotes, repo_refs, lock, published >>

\* A deploy that fails after it created the deploy directory and recorded
\* the origin, and whose own cleanup did not run to its end (it was
\* cancelled, or the run was aborted): the directory stays, with no commit.
flatpak_dir_deploy_install_aborted(ref, remote) ==
  /\ deploy_base' = deploy_base \cup {ref}
  /\ origin' = [origin EXCEPT ![ref] = remote]
  /\ UNCHANGED << deployed, active, current, remotes, repo_refs, changed,
                  lock, published >>

\* A deploy of an update that leaves the previous commit's directory.
flatpak_dir_deploy_update_keeping(ref, remote) ==
  IF repo_refs[<<remote, ref>>] = active[ref]
    THEN UNCHANGED storeVars
    ELSE /\ deployed' = [deployed EXCEPT ![ref] = @ \cup {repo_refs[<<remote, ref>>]}]
         /\ active' = [active EXCEPT ![ref] = repo_refs[<<remote, ref>>]]
         /\ changed' = TRUE
         /\ UNCHANGED << deploy_base, origin, current, remotes, repo_refs,
                         lock, published >>

\* flatpak_dir_deploy_update: checks out the commit of the local ref when it
\* is not the active one, makes it active and undeploys the previous one.
CanDeployUpdate(remote, ref) ==
  ref \in deploy_base /\ repo_refs[<<remote, ref>>] # NoCommit

flatpak_dir_deploy_update(ref, remote) ==
  IF repo_refs[<<remote, ref>>] = active[ref]
    THEN UNCHANGED storeVars
    ELSE /\ deployed' = [deployed EXCEPT ![ref] = {repo_refs[<<remote, ref>>]}]
         /\ active' = [active EXCEPT ![ref] = repo_refs[<<remote, ref>>]]
         /\ changed' = TRUE
         /\ UNCHANGED << deploy_base, origin, current, remotes, repo_refs,
                         lock, published >>

\* flatpak_dir_set_active (dir, ref, NULL): removes the "active" link.
flatpak_dir_set_active(ref, commit) ==
  /\ active' = [active EXCEPT ![ref] = commit]
  /\ UNCHANGED << deploy_base, deployed, origin, current, remotes, repo_refs,
                  changed, lock, published >>

\* flatpak_dir_current_ref: the full ref the name's "current" link names.
flatpak_dir_current_ref(name) == current[name]

\* flatpak_dir_drop_current_ref: removes the name's "current" link.
flatpak_dir_drop_current_ref(name) ==
  /\ current' = [current EXCEPT ![name] = NoRef]
  /\ UNCHANGED << deploy_base, deployed, active, origin, remotes, repo_refs,
                  changed, lock, published >>

\* flatpak_dir_undeploy_all: removes every commit directory of the ref and its
\* deploy directory (with the origin and the active link it holds).
WasDeployed(ref) == deployed[ref] # {}

flatpak_dir_undeploy_all(ref) ==
  /\ deployed' = [deployed EXCEPT ![ref] = {}]
  /\ deploy_base' = deploy_base \ {ref}
  /\ active' = [active EXCEPT ![ref] = NoCommit]
  /\ origin' = [origin EXCEPT ![ref] = NULL]
  /\ UNCHANGED << current, remotes, repo_refs, changed, lock, published >>

\* flatpak_dir_remove_ref: removes the local ref remote:ref.
flatpak_dir_remove_ref(remote, ref) ==
  /\ repo_refs' = [repo_refs EXCEPT ![<<remote, ref>>] = NoCommit]
  /\ UNCHANGED << deploy_base, deployed, active, origin, current, remotes,
                  changed, lock, published >>

\* flatpak_dir_mark_changed: touches the ".changed" marker.
flatpak_dir_mark_changed ==
  /\ changed' = TRUE
  /\ UNCHANGED << deploy_base, deployed, active, origin, current, remotes,
                  repo_refs, lock, published >>

\* flatpak_dir_create_origin_remote: the first unused name "<name>-origin",
\* "<name>-1-origin", ... is configured as a new remote.
OriginsConfigured == Cardinality(SeqToSet(remotes) \cap AllOriginNames)

FreeOriginNames(name) ==
  { i \in 1..Len(OriginNames[name]) : OriginNames[name][i] \notin SeqToSet(remotes) }

CanCreateOriginRemote(name) ==
  FreeOriginNames(name) # {} /\ OriginsConfigured < MaxOrigins

NewOriginRemote(name) ==
  OriginNames[name][CHOOSE i \in FreeOriginNames(name) :
                      \A j \in FreeOriginNames(name) : i <= j]

flatpak_dir_create_origin_remote(name) ==
  /\ remotes' = Append(remotes, NewOriginRemote(name))
  /\ UNCHANGED << deploy_base, deployed, active, origin, current, repo_refs,
                  changed, lock, published >>

\* flatpak_pull_from_bundle: imports the bundle's commit as remote:ref.
flatpak_pull_from_bundle(remote, ref) ==
  /\ repo_refs' = [repo_refs EXCEPT ![<<remote, ref>>] = BundleCommit]
  /\ UNCHANGED << deploy_base, deployed, active, origin, current, remotes,
                  changed, lock, published >>

\* A removal that takes the oldest entry of the configuration.
ostree_repo_remote_delete_first(remote) ==
  /\ remotes' = Tail(remotes)
  /\ UNCHANGED << deploy_base, deployed, active, origin, current, repo_refs,
                  changed, lock, published >>

\* ostree_repo_remote_delete: removes the remote from the configuration.
ostree_repo_remote_delete(remote) ==
  /\ remotes' = SeqRemove(remotes, remote)
  /\ UNCHANGED << deploy_base, deployed, active, origin, current, repo_refs,
                  changed, lock, published >>

(***************************************************************************)
(* get_ref (lines 294-342): the FlatpakInstalledRef describing full_ref.   *)
(***************************************************************************)
\* flatpak_dir_get_deploy_data: the deploy data exists when the ref has an
\* active deployment.
HasDeployData(full_ref) ==
  full_ref \in deploy_base /\ active[full_ref] # NoCommit

\* flatpak_dir_read_latest (dir, origin, full_ref, NULL, NULL): the commit of the
\* local ref origin:full_ref, NoCommit (a NULL string) when there is none.
flatpak_dir_read_latest(remote, full_ref) ==
  IF remote \in RemoteNames THEN repo_refs[<<remote, full_ref>>] ELSE NoCommit

Crashed == [null |-> TRUE, crashed |-> TRUE]

\* An InstalledRef that says every app is current.
InstalledRefOf_apps_current(full_ref) ==
  [ null |-> FALSE,
    ref |-> full_ref,
    commit |-> active[full_ref],
    latest_commit |-> flatpak_dir_read_latest(origin[full_ref], full_ref),
    origin |-> origin[full_ref],
    deploy_path |-> << full_ref, active[full_ref] >>,
    is_current |-> full_ref[1] = "app" ]

\* An InstalledRef that never says it is current.
InstalledRefOf_never_current(full_ref) ==
  [ null |-> FALSE,
    ref |-> full_ref,
    commit |-> active[full_ref],
    latest_commit |-> flatpak_dir_read_latest(origin[full_ref], full_ref),
    origin |-> origin[full_ref],
    deploy_path |-> << full_ref, active[full_ref] >>,
    is_current |-> FALSE ]

InstalledRefOf(full_ref) ==
  [ null |-> FALSE,
    ref |-> full_ref,
    commit |-> active[full_ref],
    latest_commit |-> flatpak_dir_read_latest(origin[full_ref], full_ref),
    origin |-> origin[full_ref],
    deploy_path |-> << full_ref, active[full_ref] >>,
    is_current |-> /\ full_ref[1] = "app"
                   /\ flatpak_dir_current_ref(full_ref[2]) # NoRef
                   /\ full_ref = flatpak_dir_current_ref(full_ref[2]) ]

\* get_ref giving up (NULL) when the latest commit cannot be read.
get_ref_latest_required(full_ref) ==
  IF HasDeployData(full_ref)
    THEN IF flatpak_dir_read_latest(origin[full_ref], full_ref) = NoCommit
           THEN { NullRef }
           ELSE { InstalledRefOf(full_ref) }
    ELSE { Crashed,
           [ InstalledRefOf(full_ref) EXCEPT !.commit = NoCommit, !.origin = NULL,
                                             !.latest_commit = NoCommit,
                                             !.deploy_path = << full_ref, NoCommit >> ] }

\* get_ref does not test deploy_data: without deploy data the getters read
\* through a NULL GVariant, which is undefined: the call either faults or
\* goes on with NULL fields.
get_ref(full_ref) ==
  IF HasDeployData(full_ref)
    THEN { InstalledRefOf(full_ref) }
    ELSE { Crashed,
           [ InstalledRefOf(full_ref) EXCEPT !.commit = NoCommit, !.origin = NULL,
                                             !.latest_commit = NoCommit,
                                             !.deploy_path = << full_ref, NoCommit >> ] }

(***************************************************************************)
(* A caller starts a call, and leaves it once it has returned.             *)
(***************************************************************************)
Ops == {"install", "install_bundle", "update", "uninstall"}

FirstStep(op) ==
  CASE op = "install" -> "install_check"
    [] op = "install_bundle" -> "bundle_load"
    [] op = "update" -> "update_check"
    [] op = "uninstall" -> "uninstall_lock"

InstallRemotes == {"r1", "r2"}

CallArgs ==
  { [op |-> "install", kind |-> t.kind, name |-> t.name, arch |-> t.arch,
     branch |-> t.branch, remote_name |-> r, no_pull |-> FALSE, no_deploy |-> FALSE]
      : t \in Targets, r \in InstallRemotes }
  \cup
  { [op |-> o, kind |-> t.kind, name |-> t.name, arch |-> t.arch,
     branch |-> t.branch, remote_name |-> NULL, no_pull |-> FALSE, no_deploy |-> FALSE]
      : t \in Targets, o \in {"install_bundle", "uninstall"} }
  \cup
  { [op |-> "update", kind |-> t.kind, name |-> t.name, arch |-> t.arch,
     branch |-> t.branch, remote_name |-> NULL, no_pull |-> np, no_deploy |-> nd]
      : t \in Targets, np \in BOOLEAN, nd \in BOOLEAN }

StartCall(p) ==
  /\ pc[p] = "idle"
  /\ ncalls < MaxCalls
  /\ \E c \in CallArgs :
       /\ call' = [call EXCEPT ![p] = c]
       /\ pc' = [pc EXCEPT ![p] = FirstStep(c.op)]
  /\ ncalls' = ncalls + 1
  /\ UNCHANGED << storeVars, cancel, loc, result, err, trace >>
  /\ Quiet(p)

\* The caller has looked at what the call returned.
Finish(p) ==
  /\ pc[p] = "done"
  /\ pc' = [pc EXCEPT ![p] = "idle"]
  /\ call' = [call EXCEPT ![p] = NoCall]
  /\ cancel' = [cancel EXCEPT ![p] = FALSE]
  /\ loc' = [loc EXCEPT ![p] = NoLocals]
  /\ result' = [result EXCEPT ![p] = NullRef]
  /\ err' = [err EXCEPT ![p] = NoError]
  /\ trace' = [trace EXCEPT ![p] = << >>]
  /\ UNCHANGED << storeVars, ncalls >>
  /\ Quiet(p)

\* The call's GCancellable is cancelled (by another thread) while it runs.
InCall(p) == pc[p] \notin {"idle", "done", "crashed"}

Cancel(p) ==
  /\ InCall(p)
  /\ ~cancel[p]
  /\ cancel' = [cancel EXCEPT ![p] = TRUE]
  /\ UNCHANGED << storeVars, pc, call, loc, result, err, trace, ncalls >>
  /\ Quiet(p)

\* The ref the call is about.
CallRef(p) ==
  flatpak_compose_ref(call[p].kind = FLATPAK_REF_KIND_APP, call[p].name,
                      call[p].branch, call[p].arch)

(***************************************************************************)
(* flatpak_installation_install (lines 926-990).                           *)
(***************************************************************************)
\* install_check without the test of the deploy directory.
install_check_no_test(p) ==
  /\ pc[p] = "install_check"
  /\ Goto(p, "install_pull")
  /\ loc' = [loc EXCEPT ![p] = [Checked(@, CallRef(p), cancel[p])
                                  EXCEPT !.dir_clone = TRUE,
                                         !.main_context = TRUE]]
  /\ trace' = [trace EXCEPT ![p] =
       @ \o << [step |-> "flatpak_dir_clone", via |-> "self"],
               [step |-> "g_main_context_push_thread_default", via |-> "none"] >>]
  /\ UNCHANGED << storeVars, call, cancel, ncalls >>
  /\ Quiet(p)

\* Lines 949-974: compose the ref, fail if its deploy directory exists, else
\* clone the dir and push a private main context.
install_check(p) ==
  /\ pc[p] = "install_check"
  /\ IF g_file_query_exists(CallRef(p) \in deploy_base, cancel[p])
       THEN /\ Return(p, NullRef, ALREADY_INSTALLED)
            /\ loc' = [loc EXCEPT ![p] = Checked(@, CallRef(p), cancel[p])]
            /\ UNCHANGED trace
       ELSE /\ Goto(p, "install_pull")
            /\ loc' = [loc EXCEPT ![p] = [Checked(@, CallRef(p), cancel[p])
                                            EXCEPT !.dir_clone = TRUE,
                                                   !.main_context = TRUE]]
            /\ trace' = [trace EXCEPT ![p] =
                 @ \o << [step |-> "flatpak_dir_clone", via |-> "self"],
                         [step |-> "g_main_context_push_thread_default", via |-> "none"] >>]
  /\ UNCHANGED << storeVars, call, cancel, ncalls >>
  /\ Quiet(p)

\* The out: label without the pop of the main context.
ReturnUnpopped(p, res, e) ==
  /\ Return(p, res, e)
  /\ UNCHANGED loc

\* The out: label of install and update (lines 982-989, 1076-1083): pop the
\* main context if one was pushed, and return result.
PopAndReturn(p, res, e) ==
  /\ Return(p, res, e)
  /\ loc' = [loc EXCEPT ![p].main_context = FALSE]

\* Lines 976-978, flatpak_dir_install's pull.
install_pull(p) ==
  /\ pc[p] = "install_pull"
  /\ \E o \in Outcomes(p) :
       IF o = NoError /\ CanPull(call[p].remote_name, loc[p].ref)
         THEN /\ flatpak_dir_pull(call[p].remote_name, loc[p].ref)
              /\ Goto(p, "install_deploy")
              /\ Did(p, "flatpak_dir_pull", "clone")
              /\ UNCHANGED loc
         ELSE /\ PopAndReturn(p, NullRef, IF o = NoError THEN IO_ERROR ELSE o)
              /\ UNCHANGED << storeVars, trace >>
  /\ UNCHANGED << call, cancel, ncalls >>
  /\ Quiet(p)

\* Lines 976-978, flatpak_dir_install's deploy.
install_deploy(p) ==
  /\ pc[p] = "install_deploy"
  /\ \E o \in Outcomes(p) :
       IF o = NoError /\ CanDeployInstall(call[p].remote_name, loc[p].ref)
         THEN /\ flatpak_dir_deploy_install(loc[p].ref, call[p].remote_name)
              /\ Goto(p, "install_get_ref")
              /\ Did(p, "flatpak_dir_deploy_install", "clone")
              /\ UNCHANGED loc
         ELSE /\ PopAndReturn(p, NullRef,
                   IF o # NoError THEN o
                   ELSE IF loc[p].ref \in deploy_base THEN ALREADY_INSTALLED
                   ELSE IO_ERROR)
              /\ \/ UNCHANGED storeVars
                 \/ /\ loc[p].ref \notin deploy_base
                    /\ flatpak_dir_deploy_install_aborted(loc[p].ref, call[p].remote_name)
              /\ UNCHANGED trace
  /\ UNCHANGED << call, cancel, ncalls >>
  /\ Quiet(p)

\* Lines 980-989: describe the ref, pop the main context, return.
install_get_ref(p) ==
  /\ pc[p] = "install_get_ref"
  /\ \E r \in get_ref(loc[p].ref) :
       IF r = Crashed
         THEN /\ pc' = [pc EXCEPT ![p] = "crashed"]
              /\ UNCHANGED << result, err, loc >>
         ELSE PopAndReturn(p, r, NoError)
  /\ UNCHANGED << storeVars, call, cancel, trace, ncalls >>
  /\ Quiet(p)

(***************************************************************************)
(* flatpak_installation_update (lines 1009-1084).                          *)
(***************************************************************************)
\* update_check without the test of the deploy directory.
update_check_no_test(p) ==
  /\ pc[p] = "update_check"
  /\ loc' = [loc EXCEPT ![p] = Checked(@, CallRef(p), cancel[p])]
  /\ Goto(p, "update_origin")
  /\ UNCHANGED << storeVars, call, cancel, trace, ncalls >>
  /\ Quiet(p)

\* Lines 1032-1043: compose the ref; NotInstalled without a deploy directory.
update_check(p) ==
  /\ pc[p] = "update_check"
  /\ loc' = [loc EXCEPT ![p] = Checked(@, CallRef(p), cancel[p])]
  /\ IF ~g_file_query_exists(CallRef(p) \in deploy_base, cancel[p])
       THEN Return(p, NullRef, NOT_INSTALLED)
       ELSE Goto(p, "update_origin")
  /\ UNCHANGED << storeVars, call, cancel, trace, ncalls >>
  /\ Quiet(p)

\* Lines 1045-1065: resolve origin and subpaths through priv->dir, then clone
\* the dir and push a private main context.
update_origin(p) ==
  /\ pc[p] = "update_origin"
  /\ \E o \in Outcomes(p) :
       IF o = NoError /\ origin[loc[p].ref] # NULL
         THEN /\ Goto(p, "update_pull")
              /\ loc' = [loc EXCEPT ![p].remote_name = origin[loc[p].ref],
                                    ![p].dir_clone = TRUE,
                                    ![p].main_context = TRUE]
              /\ trace' = [trace EXCEPT ![p] =
                   @ \o << [step |-> "flatpak_dir_get_origin", via |-> "self"],
                           [step |-> "flatpak_dir_get_subpaths", via |-> "self"],
                           [step |-> "flatpak_dir_clone", via |-> "self"],
                           [step |-> "g_main_context_push_thread_default", via |-> "none"] >>]
         ELSE /\ Return(p, NullRef, IF o = NoError THEN IO_ERROR ELSE o)
              /\ UNCHANGED << loc, trace >>
  /\ UNCHANGED << storeVars, call, cancel, ncalls >>
  /\ Quiet(p)

\* update that never pulls, whatever the flags.
update_pull_never(p) ==
  /\ pc[p] = "update_pull"
  /\ Goto(p, "update_deploy")
  /\ UNCHANGED << storeVars, loc, trace >>
  /\ UNCHANGED << call, cancel, ncalls >>
  /\ Quiet(p)

\* Lines 1067-1072, flatpak_dir_update's pull, skipped with NO_PULL.
update_pull(p) ==
  /\ pc[p] = "update_pull"
  /\ IF call[p].no_pull
       THEN /\ Goto(p, "update_deploy")
            /\ UNCHANGED << storeVars, loc, trace >>
       ELSE \E o \in Outcomes(p) :
              IF o = NoError /\ CanPull(loc[p].remote_name, loc[p].ref)
                THEN /\ flatpak_dir_pull(loc[p].remote_name, loc[p].ref)
                     /\ Goto(p, "update_deploy")
                     /\ Did(p, "flatpak_dir_pull", "clone")
                     /\ UNCHANGED loc
                ELSE /\ PopAndReturn(p, NullRef, IF o = NoError THEN IO_ERROR ELSE o)
                     /\ UNCHANGED << storeVars, trace >>
  /\ UNCHANGED << call, cancel, ncalls >>
  /\ Quiet(p)

\* The deploy of update skipped with NO_PULL instead of NO_DEPLOY.
update_deploy_by_no_pull(p) ==
  /\ pc[p] = "update_deploy"
  /\ IF call[p].no_pull
       THEN /\ Goto(p, "update_get_ref")
            /\ UNCHANGED << storeVars, loc, trace >>
       ELSE \E o \in Outcomes(p) :
              IF o = NoError /\ CanDeployUpdate(loc[p].remote_name, loc[p].ref)
                THEN /\ flatpak_dir_deploy_update(loc[p].ref, loc[p].remote_name)
                     /\ Goto(p, "update_get_ref")
                     /\ Did(p, "flatpak_dir_deploy_update", "clone")
                     /\ UNCHANGED loc
                ELSE /\ PopAndReturn(p, NullRef, IF o = NoError THEN IO_ERROR ELSE o)
                     /\ UNCHANGED << storeVars, trace >>
  /\ UNCHANGED << call, cancel, ncalls >>
  /\ Quiet(p)

\* Lines 1067-1072, flatpak_dir_update's deploy, skipped with NO_DEPLOY.
update_deploy(p) ==
  /\ pc[p] = "update_deploy"
  /\ IF call[p].no_deploy
       THEN /\ Goto(p, "update_get_ref")
            /\ UNCHANGED << storeVars, loc, trace >>
       ELSE \E o \in Outcomes(p) :
              IF o = NoError /\ CanDeployUpdate(loc[p].remote_name, loc[p].ref)
                THEN /\ flatpak_dir_deploy_update(loc[p].ref, loc[p].remote_name)
                     /\ Goto(p, "update_get_ref")
                     /\ Did(p, "flatpak_dir_deploy_update", "clone")
                     /\ UNCHANGED loc
                ELSE /\ PopAndReturn(p, NullRef, IF o = NoError THEN IO_ERROR ELSE o)
                     /\ UNCHANGED << storeVars, trace >>
  /\ UNCHANGED << call, cancel, ncalls >>
  /\ Quiet(p)

\* Lines 1074-1083: describe the ref, pop the main context, return.
update_get_ref(p) ==
  /\ pc[p] = "update_get_ref"
  /\ \E r \in get_ref(loc[p].ref) :
       IF r = Crashed
         THEN /\ pc' = [pc EXCEPT ![p] = "crashed"]
              /\ UNCHANGED << result, err, loc >>
         ELSE PopAndReturn(p, r, NoError)
  /\ UNCHANGED << storeVars, call, cancel, trace, ncalls >>
  /\ Quiet(p)

(***************************************************************************)
(* flatpak_installation_install_bundle (lines 818-907).  The bundle file   *)
(* holds the ref the call's arguments name, at BundleCommit.               *)
(***************************************************************************)
\* Lines 843-864: load the bundle, decompose its ref, fail if the deploy
\* directory exists.
bundle_load(p) ==
  /\ pc[p] = "bundle_load"
  /\ \/ /\ Return(p, NullRef, MALFORMED_BUNDLE)
        /\ UNCHANGED loc
     \/ /\ loc' = [loc EXCEPT ![p] = Checked(@, CallRef(p), cancel[p])]
        /\ IF g_file_query_exists(CallRef(p) \in deploy_base, cancel[p])
             THEN Return(p, NullRef, ALREADY_INSTALLED)
             ELSE Goto(p, "bundle_create_remote")
  /\ UNCHANGED << storeVars, call, cancel, trace, ncalls >>
  /\ Quiet(p)

\* Lines 866-882: create the origin remote through priv->dir; from here on
\* errors go to out.  Then clone the dir.
bundle_create_remote(p) ==
  /\ pc[p] = "bundle_create_remote"
  /\ \E o \in Outcomes(p) :
       IF o = NoError /\ CanCreateOriginRemote(loc[p].ref[2])
         THEN /\ flatpak_dir_create_origin_remote(loc[p].ref[2])
              /\ Goto(p, "bundle_ensure_repo")
              /\ loc' = [loc EXCEPT ![p].remote = NewOriginRemote(loc[p].ref[2]),
                                    ![p].added_remote = TRUE,
                                    ![p].dir_clone = TRUE]
              /\ trace' = [trace EXCEPT ![p] =
                   @ \o << [step |-> "flatpak_dir_create_origin_remote", via |-> "self"],
                           [step |-> "flatpak_dir_clone", via |-> "self"] >>]
         ELSE /\ Return(p, NullRef, IF o = NoError THEN IO_ERROR ELSE o)
              /\ UNCHANGED << storeVars, loc, trace >>
  /\ UNCHANGED << call, cancel, ncalls >>
  /\ Quiet(p)

\* goto out that leaves the error unset.
GotoOut_no_error(p, e) ==
  /\ pc' = [pc EXCEPT ![p] = "bundle_out"]
  /\ UNCHANGED << result, err >>

\* goto out with the error a failed step set; result stays NULL.
GotoOut(p, e) ==
  /\ pc' = [pc EXCEPT ![p] = "bundle_out"]
  /\ err' = [err EXCEPT ![p] = e]
  /\ UNCHANGED result

\* Lines 884-885: flatpak_dir_ensure_repo on the clone.
bundle_ensure_repo(p) ==
  /\ pc[p] = "bundle_ensure_repo"
  /\ \E o \in Outcomes(p) :
       IF o = NoError THEN Goto(p, "bundle_pull") ELSE GotoOut(p, o)
  /\ UNCHANGED << storeVars, call, cancel, loc, trace, ncalls >>
  /\ Quiet(p)

\* Lines 887-894: import the bundle into the clone's repository.
bundle_pull(p) ==
  /\ pc[p] = "bundle_pull"
  /\ \E o \in Outcomes(p) :
       IF o = NoError
         THEN /\ flatpak_pull_from_bundle(loc[p].remote, loc[p].ref)
              /\ Goto(p, "bundle_deploy")
              /\ Did(p, "flatpak_pull_from_bundle", "clone")
         ELSE /\ GotoOut(p, o)
              /\ UNCHANGED << storeVars, trace >>
  /\ UNCHANGED << call, cancel, loc, ncalls >>
  /\ Quiet(p)

\* Lines 896-897: deploy through the clone.
bundle_deploy(p) ==
  /\ pc[p] = "bundle_deploy"
  /\ \E o \in Outcomes(p) :
       IF o = NoError /\ CanDeployInstall(loc[p].remote, loc[p].ref)
         THEN /\ flatpak_dir_deploy_install(loc[p].ref, loc[p].remote)
              /\ Goto(p, "bundle_get_ref")
              /\ Did(p, "flatpak_dir_deploy_install", "clone")
         ELSE /\ GotoOut(p, IF o # NoError THEN o
                            ELSE IF loc[p].ref \in deploy_base THEN ALREADY_INSTALLED
                            ELSE IO_ERROR)
              /\ \/ UNCHANGED storeVars
                 \/ /\ loc[p].ref \notin deploy_base
                    /\ flatpak_dir_deploy_install_aborted(loc[p].ref, loc[p].remote)
              /\ UNCHANGED trace
  /\ UNCHANGED << call, cancel, loc, ncalls >>
  /\ Quiet(p)

\* Line 899: result = get_ref (self, ref, cancellable).
bundle_get_ref(p) ==
  /\ pc[p] = "bundle_get_ref"
  /\ \E r \in get_ref(loc[p].ref) :
       IF r = Crashed
         THEN /\ pc' = [pc EXCEPT ![p] = "crashed"]
              /\ UNCHANGED << result, err >>
         ELSE /\ pc' = [pc EXCEPT ![p] = "bundle_out"]
              /\ result' = [result EXCEPT ![p] = r]
              /\ UNCHANGED err
  /\ UNCHANGED << storeVars, call, cancel, loc, trace, ncalls >>
  /\ Quiet(p)

\* The out: label without the removal of the remote.
bundle_out_no_delete(p) ==
  /\ pc[p] = "bundle_out"
  /\ UNCHANGED << storeVars, trace >>
  /\ Return(p, result[p], err[p])
  /\ UNCHANGED << call, cancel, loc, ncalls >>
  /\ Quiet(p)

\* Lines 901-906, the out: label: delete the remote this call added if there
\* is no result, and return result.
bundle_out(p) ==
  /\ pc[p] = "bundle_out"
  /\ IF loc[p].added_remote /\ result[p] = NullRef
       THEN /\ ostree_repo_remote_delete(loc[p].remote)
            /\ Did(p, "ostree_repo_remote_delete", "self")
       ELSE UNCHANGED << storeVars, trace >>
  /\ Return(p, result[p], err[p])
  /\ UNCHANGED << call, cancel, loc, ncalls >>
  /\ Quiet(p)

(***************************************************************************)
(* flatpak_installation_uninstall (lines 1102-1193).                       *)
(***************************************************************************)
\* The gboolean TRUE uninstall returns.
TrueResult == [null |-> FALSE]

\* A release that leaves the lock file held.
glnx_release_lock_file_never(p) == UNCHANGED lock

\* glnx_release_lock_file (line 1168): the lock file is released if held.
glnx_release_lock_file(p) == lock' = IF lock = p THEN NoLock ELSE lock

\* A lock variable without a cleanup: leaving the function keeps the lock.
lock_cleanup_none(p) == UNCHANGED lock

\* g_auto(GLnxLockFile) lock (line 1121): leaving the function runs the
\* cleanup of the lock variable, which releases the lock file if still held.
lock_cleanup(p) == glnx_release_lock_file(p)

\* return FALSE from inside uninstall, with the error a failed step set.
UninstallFail(p, e) ==
  /\ Return(p, NullRef, e)
  /\ lock_cleanup(p)

\* uninstall taking the lock whether or not another caller holds it.
uninstall_lock_shared(p) ==
  /\ pc[p] = "uninstall_lock"
  /\ loc' = [loc EXCEPT ![p].ref = CallRef(p), ![p].dir_clone = TRUE]
  /\ \E o \in Outcomes(p) :
       IF o = NoError
         THEN /\ lock' = p
              /\ Goto(p, "uninstall_check")
              /\ trace' = [trace EXCEPT ![p] =
                   @ \o << [step |-> "flatpak_dir_clone", via |-> "self"],
                           [step |-> "flatpak_dir_lock", via |-> "clone"] >>]
         ELSE /\ Return(p, NullRef, o)
              /\ Did(p, "flatpak_dir_clone", "self")
              /\ UNCHANGED lock
  /\ UNCHANGED << deploy_base, deployed, active, origin, current, remotes,
                  repo_refs, changed, published, call, cancel, ncalls >>
  /\ Quiet(p)

\* uninstall going on to the test of the deploy directory whether or not it
\* got the lock.
uninstall_lock_unchecked(p) ==
  /\ pc[p] = "uninstall_lock"
  /\ loc' = [loc EXCEPT ![p].ref = CallRef(p), ![p].dir_clone = TRUE]
  /\ \E o \in Outcomes(p) \cup {BUSY} :
       IF o = NoError
         THEN /\ lock = NoLock
              /\ lock' = p
              /\ Goto(p, "uninstall_check")
              /\ trace' = [trace EXCEPT ![p] =
                   @ \o << [step |-> "flatpak_dir_clone", via |-> "self"],
                           [step |-> "flatpak_dir_lock", via |-> "clone"] >>]
         ELSE /\ o = BUSY => (lock # NoLock /\ lock # p)
              /\ Goto(p, "uninstall_check")
              /\ Did(p, "flatpak_dir_clone", "self")
              /\ UNCHANGED lock
  /\ UNCHANGED << deploy_base, deployed, active, origin, current, remotes,
                  repo_refs, changed, published, call, cancel, ncalls >>
  /\ Quiet(p)

\* Lines 1123-1132: compose the ref, clone the dir, take the lock.  The wait
\* for a held lock is bounded: the call either keeps waiting or gives up.
uninstall_lock(p) ==
  /\ pc[p] = "uninstall_lock"
  /\ loc' = [loc EXCEPT ![p].ref = CallRef(p), ![p].dir_clone = TRUE]
  /\ \E o \in Outcomes(p) \cup {BUSY} :
       IF o = NoError
         THEN /\ lock = NoLock
              /\ lock' = p
              /\ Goto(p, "uninstall_check")
              /\ trace' = [trace EXCEPT ![p] =
                   @ \o << [step |-> "flatpak_dir_clone", via |-> "self"],
                           [step |-> "flatpak_dir_lock", via |-> "clone"] >>]
         ELSE /\ o = BUSY => (lock # NoLock /\ lock # p)
              /\ Return(p, NullRef, o)
              /\ Did(p, "flatpak_dir_clone", "self")
              /\ UNCHANGED lock
  /\ UNCHANGED << deploy_base, deployed, active, origin, current, remotes,
                  repo_refs, changed, published, call, cancel, ncalls >>
  /\ Quiet(p)

\* Lines 1134-1141: NotInstalled without a deploy directory.
uninstall_check(p) ==
  /\ pc[p] = "uninstall_check"
  /\ loc' = [loc EXCEPT ![p] = Checked(@, loc[p].ref, cancel[p])]
  /\ IF ~g_file_query_exists(loc[p].ref \in deploy_base, cancel[p])
       THEN UninstallFail(p, NOT_INSTALLED)
       ELSE Goto(p, "uninstall_origin") /\ UNCHANGED lock
  /\ UNCHANGED << deploy_base, deployed, active, origin, current, remotes,
                  repo_refs, changed, published, call, cancel, trace, ncalls >>
  /\ Quiet(p)

\* Lines 1143-1145: resolve the origin through priv->dir.
uninstall_origin(p) ==
  /\ pc[p] = "uninstall_origin"
  /\ \E o \in Outcomes(p) :
       IF o = NoError /\ origin[loc[p].ref] # NULL
         THEN /\ Goto(p, "uninstall_set_active")
              /\ loc' = [loc EXCEPT ![p].remote_name = origin[loc[p].ref]]
              /\ Did(p, "flatpak_dir_get_origin", "self")
              /\ UNCHANGED lock
         ELSE /\ UninstallFail(p, IF o = NoError THEN IO_ERROR ELSE o)
              /\ UNCHANGED << loc, trace >>
  /\ UNCHANGED << deploy_base, deployed, active, origin, current, remotes,
                  repo_refs, changed, published, call, cancel, ncalls >>
  /\ Quiet(p)

\* A failing step of uninstall that touches the change marker on its way out.
UninstallStepFailsMarking(p, e) ==
  /\ UninstallFail(p, e)
  /\ changed' = TRUE
  /\ UNCHANGED << deploy_base, deployed, active, origin, current, remotes,
                  repo_refs, published, loc, trace >>

\* A step of uninstall that fails: nothing but the lock changes.
UninstallStepFails(p, e) ==
  /\ UninstallFail(p, e)
  /\ UNCHANGED << deploy_base, deployed, active, origin, current, remotes,
                  repo_refs, changed, published, loc, trace >>

\* Lines 1147-1149: drop the active link.
uninstall_set_active(p) ==
  /\ pc[p] = "uninstall_set_active"
  /\ \E o \in Outcomes(p) :
       IF o = NoError
         THEN /\ flatpak_dir_set_active(loc[p].ref, NoCommit)
              /\ Goto(p, "uninstall_drop_current")
              /\ Did(p, "flatpak_dir_set_active", "clone")
              /\ UNCHANGED loc
         ELSE UninstallStepFails(p, o)
  /\ UNCHANGED << call, cancel, ncalls >>
  /\ Quiet(p)

\* uninstall going on to the undeploy with the current link left as it is.
uninstall_drop_current_skipped(p) ==
  /\ pc[p] = "uninstall_drop_current"
  /\ Goto(p, "uninstall_undeploy")
  /\ UNCHANGED << storeVars, loc, trace >>
  /\ UNCHANGED << call, cancel, ncalls >>
  /\ Quiet(p)

\* The drop of the current link for every app, whichever ref the link names.
uninstall_drop_current_any_app(p) ==
  /\ pc[p] = "uninstall_drop_current"
  /\ IF /\ call[p].kind = FLATPAK_REF_KIND_APP
        /\ ~cancel[p]
        /\ flatpak_dir_current_ref(call[p].name) # NoRef
       THEN \E o \in Outcomes(p) :
              IF o = NoError
                THEN /\ flatpak_dir_drop_current_ref(call[p].name)
                     /\ Goto(p, "uninstall_undeploy")
                     /\ Did(p, "flatpak_dir_drop_current_ref", "clone")
                     /\ UNCHANGED loc
                ELSE UninstallStepFails(p, o)
       ELSE /\ Goto(p, "uninstall_undeploy")
            /\ UNCHANGED << storeVars, loc, trace >>
  /\ UNCHANGED << call, cancel, ncalls >>
  /\ Quiet(p)

\* Lines 1151-1160: for an app whose name's current ref is this ref, drop
\* the current link.  flatpak_dir_current_ref returns NULL when it fails.
uninstall_drop_current(p) ==
  /\ pc[p] = "uninstall_drop_current"
  /\ IF /\ call[p].kind = FLATPAK_REF_KIND_APP
        /\ ~cancel[p]
        /\ flatpak_dir_current_ref(call[p].name) # NoRef
        /\ loc[p].ref = flatpak_dir_current_ref(call[p].name)
       THEN \E o \in Outcomes(p) :
              IF o = NoError
                THEN /\ flatpak_dir_drop_current_ref(call[p].name)
                     /\ Goto(p, "uninstall_undeploy")
                     /\ Did(p, "flatpak_dir_drop_current_ref", "clone")
                     /\ UNCHANGED loc
                ELSE UninstallStepFails(p, o)
       ELSE /\ Goto(p, "uninstall_undeploy")
            /\ UNCHANGED << storeVars, loc, trace >>
  /\ UNCHANGED << call, cancel, ncalls >>
  /\ Quiet(p)

\* Lines 1162-1163: remove the deployed commits, noting whether there were any.
uninstall_undeploy(p) ==
  /\ pc[p] = "uninstall_undeploy"
  /\ \E o \in Outcomes(p) :
       IF o = NoError
         THEN /\ flatpak_dir_undeploy_all(loc[p].ref)
              /\ loc' = [loc EXCEPT ![p].was_deployed = WasDeployed(loc[p].ref)]
              /\ Goto(p, "uninstall_remove_ref")
              /\ Did(p, "flatpak_dir_undeploy_all", "clone")
         ELSE UninstallStepFails(p, o)
  /\ UNCHANGED << call, cancel, ncalls >>
  /\ Quiet(p)

\* Lines 1165-1166: remove the ref from the local repository.
uninstall_remove_ref(p) ==
  /\ pc[p] = "uninstall_remove_ref"
  /\ \E o \in Outcomes(p) :
       IF o = NoError
         THEN /\ flatpak_dir_remove_ref(loc[p].remote_name, loc[p].ref)
              /\ Goto(p, "uninstall_release")
              /\ Did(p, "flatpak_dir_remove_ref", "clone")
              /\ UNCHANGED loc
         ELSE UninstallStepFails(p, o)
  /\ UNCHANGED << call, cancel, ncalls >>
  /\ Quiet(p)

\* uninstall going on to prune with the lock still held.
uninstall_release_late(p) ==
  /\ pc[p] = "uninstall_release"
  /\ Goto(p, "uninstall_prune")
  /\ Did(p, "glnx_release_lock_file", "none")
  /\ UNCHANGED << storeVars, call, cancel, loc, ncalls >>
  /\ Quiet(p)

\* Line 1168: release the lock.
uninstall_release(p) ==
  /\ pc[p] = "uninstall_release"
  /\ glnx_release_lock_file(p)
  /\ Goto(p, "uninstall_prune")
  /\ Did(p, "glnx_release_lock_file", "none")
  /\ UNCHANGED << deploy_base, deployed, active, origin, current, remotes,
                  repo_refs, changed, published, call, cancel, loc, ncalls >>
  /\ Quiet(p)

\* Lines 1170-1173: prune the repository (a failure returns FALSE), then
\* clean up removed deployments (its failure is ignored).
uninstall_prune(p) ==
  /\ pc[p] = "uninstall_prune"
  /\ \E o \in Outcomes(p) :
       IF o = NoError
         THEN /\ Goto(p, "uninstall_update_exports")
              /\ trace' = [trace EXCEPT ![p] =
                   @ \o << [step |-> "flatpak_dir_prune", via |-> "clone"],
                           [step |-> "flatpak_dir_cleanup_removed", via |-> "clone"] >>]
              /\ UNCHANGED << storeVars, loc >>
         ELSE UninstallStepFails(p, o)
  /\ UNCHANGED << call, cancel, ncalls >>
  /\ Quiet(p)

\* Lines 1175-1179: for an app, regenerate the exports.
uninstall_update_exports(p) ==
  /\ pc[p] = "uninstall_update_exports"
  /\ IF call[p].kind = FLATPAK_REF_KIND_APP
       THEN \E o \in Outcomes(p) :
              IF o = NoError
                THEN /\ Goto(p, "uninstall_mark_changed")
                     /\ Did(p, "flatpak_dir_update_exports", "clone")
                     /\ UNCHANGED << storeVars, loc >>
                ELSE UninstallStepFails(p, o)
       ELSE /\ Goto(p, "uninstall_mark_changed")
            /\ UNCHANGED << storeVars, loc, trace >>
  /\ UNCHANGED << call, cancel, ncalls >>
  /\ Quiet(p)

\* The end of uninstall without the test of was_deployed.
uninstall_result_unchecked(was_deployed) ==
  [res |-> TrueResult, err |-> NoError]

\* Lines 1184-1192: NotInstalled if nothing was deployed, else TRUE.
uninstall_result(was_deployed) ==
  IF ~was_deployed THEN [res |-> NullRef, err |-> NOT_INSTALLED]
                   ELSE [res |-> TrueResult, err |-> NoError]

\* The end of uninstall without the touch of the change marker.
uninstall_mark_changed_skipped(p) ==
  /\ pc[p] = "uninstall_mark_changed"
  /\ lock_cleanup(p)
  /\ UNCHANGED << deploy_base, deployed, active, origin, current,
                  remotes, repo_refs, changed, published >>
  /\ Return(p, uninstall_result(loc[p].was_deployed).res,
               uninstall_result(loc[p].was_deployed).err)
  /\ UNCHANGED << loc, trace >>
  /\ UNCHANGED << call, cancel, ncalls >>
  /\ Quiet(p)

\* Lines 1181-1192: touch the change marker (flatpak_dir_mark_changed takes
\* no cancellable), then return.
uninstall_mark_changed(p) ==
  /\ pc[p] = "uninstall_mark_changed"
  /\ \E o \in {NoError, IO_ERROR} :
       IF o = NoError
         THEN /\ changed' = TRUE
              /\ lock_cleanup(p)
              /\ UNCHANGED << deploy_base, deployed, active, origin, current,
                              remotes, repo_refs, published >>
              /\ Return(p, uninstall_result(loc[p].was_deployed).res,
                           uninstall_result(loc[p].was_deployed).err)
              /\ Did(p, "flatpak_dir_mark_changed", "clone")
              /\ UNCHANGED loc
         ELSE UninstallStepFails(p, o)
  /\ UNCHANGED << call, cancel, ncalls >>
  /\ Quiet(p)

(***************************************************************************)
(* The environment: a remote publishes a new commit.                       *)
(***************************************************************************)
Publish ==
  /\ ~published
  /\ published' = TRUE
  /\ lastQuery' = NoQuery
  /\ UNCHANGED << progVars, histVars, refVars >>
  /\ UNCHANGED << deploy_base, deployed, active, origin, current, remotes,
                  repo_refs, changed, lock, procVars >>

(***************************************************************************)
(* The read queries (they go through priv->dir and take no lock).          *)
(***************************************************************************)
\* flatpak_dir_list_remotes: the configured remotes, highest priority first,
\* remotes of equal priority in the order they were added.
RECURSIVE InsertByPrio(_, _)
InsertByPrio(sorted, r) ==
  IF sorted = << >> THEN << r >>
  ELSE IF RemotePrio(Head(sorted)) >= RemotePrio(r)
    THEN << Head(sorted) >> \o InsertByPrio(Tail(sorted), r)
  ELSE << r >> \o sorted

RECURSIVE SortByPrio(_)
SortByPrio(rs) ==
  IF rs = << >> THEN << >>
  ELSE InsertByPrio(SortByPrio(SubSeq(rs, 1, Len(rs) - 1)), rs[Len(rs)])

\* The remotes in the order they were added.
flatpak_dir_list_remotes_unsorted == remotes

flatpak_dir_list_remotes == SortByPrio(remotes)

\* flatpak_installation_list_remotes (lines 613-633): one FlatpakRemote per
\* name, in the order of the names.
flatpak_installation_list_remotes ==
  [ i \in 1..Len(flatpak_dir_list_remotes) |-> [name |-> flatpak_dir_list_remotes[i]] ]

\* flatpak_dir_list_refs: the refs of a kind that have an active deployment,
\* in the order of their directories.
AllRefsSeq == << AppMaster, AppBeta, RuntimeM >>

flatpak_dir_list_refs(kind) ==
  SelectSeq(AllRefsSeq, LAMBDA r : r[1] = kind /\ HasDeployData(r))

\* flatpak_ref_format_ref: "kind/name/arch/branch".
flatpak_ref_format_ref(ref) ==
  << ref[1], "/", ref[2], "/", ref[3], "/", ref[4] >>

\* flatpak_installation_list_installed_refs (lines 444-477): get_ref of each
\* app ref, then of each runtime ref.
flatpak_installation_list_installed_refs ==
  [ i \in 1..Len(flatpak_dir_list_refs("app")) |->
      InstalledRefOf(flatpak_dir_list_refs("app")[i]) ]
  \o
  [ i \in 1..Len(flatpak_dir_list_refs("runtime")) |->
      InstalledRefOf(flatpak_dir_list_refs("runtime")[i]) ]

\* flatpak_installation_list_remote_refs_sync (lines 1346-1381): one
\* FlatpakRemoteRef per ref the remote advertises; NULL when the listing fails.
flatpak_installation_list_remote_refs_sync(remote_name, fails) ==
  IF fails THEN NULL
  ELSE SelectSeq([ i \in 1..Len(AllRefsSeq) |->
                     [ref |-> AllRefsSeq[i], commit |-> Advertised(remote_name, AllRefsSeq[i])] ],
                 LAMBDA rr : rr.commit # NoCommit)

\* A key made of the full ref alone.
UpdateKey_ref_only(remote_name, ref) == flatpak_ref_format_ref(ref)

\* Lines 564-565: the key "%s:%s" of the remote's name and the full ref.
UpdateKey(remote_name, ref) == << remote_name, ":" >> \o flatpak_ref_format_ref(ref)

\* g_hash_table_insert / g_hash_table_lookup on a table held as a set of
\* <<key, value>> pairs; a lookup of an absent key gives NULL.
g_hash_table_insert(ht, key, value) ==
  { kv \in ht : kv[1] # key } \cup { << key, value >> }

g_hash_table_lookup(ht, key) ==
  IF \E kv \in ht : kv[1] = key THEN (CHOOSE kv \in ht : kv[1] = key)[2] ELSE NULL

\* Lines 558-568: the inner loop over one remote's refs.
RECURSIVE InsertRemoteRefs(_, _, _)
InsertRemoteRefs(ht, remote_name, refs) ==
  IF refs = << >> THEN ht
  ELSE InsertRemoteRefs(
         g_hash_table_insert(ht, UpdateKey(remote_name, Head(refs).ref), Head(refs).commit),
         remote_name, Tail(refs))

\* Lines 546-575: one iteration of the loop over the remotes.  A remote
\* whose listing failed is skipped.
UpdateTableStep(ht, remote, refs) ==
  IF refs # NULL THEN InsertRemoteRefs(ht, remote.name, refs) ELSE ht

\* Lines 546-575: the loop over the remotes.
RECURSIVE UpdateTable(_, _, _)
UpdateTable(ht, rs, failed) ==
  IF rs = << >> THEN ht
  ELSE UpdateTable(
         UpdateTableStep(ht, Head(rs),
           flatpak_installation_list_remote_refs_sync(Head(rs).name, Head(rs).name \in failed)),
         Tail(rs), failed)

\* Lines 583-595: the installed refs whose key is in the table with a commit
\* other than their latest commit.
UpdatesOf(ht, installed) ==
  SelectSeq(installed,
    LAMBDA ir :
      LET remote_ref == g_hash_table_lookup(ht, UpdateKey(ir.origin, ir.ref))
      IN  remote_ref # NULL /\ remote_ref # ir.latest_commit)

\* The update query giving up when the catalog of a remote cannot be listed.
list_installed_refs_for_update_strict(remotes_fail, failed, installed_fail) ==
  IF remotes_fail \/ installed_fail \/ failed # {}
    THEN [res |-> NULL, err |-> IO_ERROR]
  ELSE [res |-> UpdatesOf(UpdateTable({}, flatpak_installation_list_remotes, failed),
                          flatpak_installation_list_installed_refs),
        err |-> NoError]

\* The update query taking a failed listing of the installed refs as an
\* empty list.
list_installed_refs_for_update_lenient(remotes_fail, failed, installed_fail) ==
  IF remotes_fail THEN [res |-> NULL, err |-> IO_ERROR]
  ELSE [res |-> UpdatesOf(UpdateTable({}, flatpak_installation_list_remotes, failed),
                          IF installed_fail THEN << >>
                          ELSE flatpak_installation_list_installed_refs),
        err |-> NoError]

\* flatpak_installation_list_installed_refs_for_update (lines 530-598).
\* remotes_fail, installed_fail: flatpak_dir_list_remotes, flatpak_dir_list_refs
\* fail; failed: the remotes whose catalog cannot be listed.
flatpak_installation_list_installed_refs_for_update(remotes_fail, failed, installed_fail) ==
  IF remotes_fail THEN [res |-> NULL, err |-> IO_ERROR]
  ELSE IF installed_fail THEN [res |-> NULL, err |-> IO_ERROR]
  ELSE [res |-> UpdatesOf(UpdateTable({}, flatpak_installation_list_remotes, failed),
                          flatpak_installation_list_installed_refs),
        err |-> NoError]

\* Lines 546-548: the names of the remotes in the order the loop of the
\* update query reaches them.
RECURSIVE VisitedRemotes(_)
VisitedRemotes(rs) ==
  IF rs = << >> THEN << >>
  ELSE << Head(rs).name >> \o VisitedRemotes(Tail(rs))

\* The ways the query's environment can fail: listing the remotes fails, or
\* the catalogs of some remotes cannot be listed and listing the installed
\* refs may fail.
QueryFailures ==
  { [remotes_fail |-> TRUE, installed_fail |-> FALSE, failed |-> {}] }
  \cup
  { [remotes_fail |-> FALSE, installed_fail |-> b, failed |-> f] :
      b \in BOOLEAN, f \in SUBSET SeqToSet(remotes) }

\* A caller runs the update query and looks at what it returned.
list_installed_refs_for_update ==
  /\ lastQuery = NoQuery
  /\ \E q \in QueryFailures :
      LET remotes_fail == q.remotes_fail
          installed_fail == q.installed_fail
          failed == q.failed
      IN
       lastQuery' =
         [op |-> "list_installed_refs_for_update",
          remotes_fail |-> remotes_fail, installed_fail |-> installed_fail,
          failed |-> failed,
          visited |-> IF remotes_fail THEN << >>
                      ELSE VisitedRemotes(flatpak_installation_list_remotes),
          ret |-> flatpak_installation_list_installed_refs_for_update(
                    remotes_fail, failed, installed_fail)]
  /\ UNCHANGED << storeVars, procVars, progVars, histVars, refVars >>

\* A caller lists the remotes (lines 613-633) and looks at what the call
\* returned; flatpak_dir_list_remotes may fail.
list_remotes ==
  /\ lastQuery = NoQuery
  /\ \E fails \in BOOLEAN :
       lastQuery' =
         [op |-> "list_remotes",
          ret |-> IF fails THEN [res |-> NULL, err |-> IO_ERROR]
                  ELSE [res |-> flatpak_installation_list_remotes, err |-> NoError]]
  /\ UNCHANGED << storeVars, procVars, progVars, histVars, refVars >>

\* A caller lists the installed refs (lines 444-477) and looks at what the
\* call returned; either listing of flatpak_dir_list_refs may fail.
list_installed_refs ==
  /\ lastQuery = NoQuery
  /\ \E fails \in BOOLEAN :
       lastQuery' =
         [op |-> "list_installed_refs",
          ret |-> IF fails THEN [res |-> NULL, err |-> IO_ERROR]
                  ELSE [res |-> flatpak_installation_list_installed_refs,
                        err |-> NoError]]
  /\ UNCHANGED << storeVars, procVars, progVars, histVars, refVars >>

(***************************************************************************)
(* The progress of one install or update: the OstreeAsyncProgress the call *)
(* connects to progress_cb, and the counters the pull sets on it.          *)
(***************************************************************************)
MaxReports == 3

\* guint arithmetic is modulo 2^32 and guint64 arithmetic modulo 2^64; the
\* model keeps both wrap-arounds on words scaled down to GuintBits and
\* Guint64Bits bits (the counters below are scaled with them).
GuintBits == 16
Guint64Bits == 2 * GuintBits - 4
guint(n) == n % (2 ^ GuintBits)
guint64(n) == n % (2 ^ Guint64Bits)

\* The counters one invocation of progress_cb reads (lines 725-737).
Counters ==
  [ status : {NULL, "s"},
    outstanding_fetches : {0, 1},
    outstanding_metadata_fetches : {0, 1},
    outstanding_writes : {0, 1},
    total_delta_parts : {0, 1},
    total_delta_part_size : {0, 100},
    bytes_transferred : {0, 50, 200},
    fetched : {0, 1, 2000},
    requested : {0, 2, 2000},
    ellapsed_time : {0, 1} ]

\* An integer division by zero is undefined: the process faults, or the
\* division gives some value and the function goes on.
DivOutcomes(n, d) ==
  IF d = 0 THEN { [fault |-> TRUE, q |-> 0], [fault |-> FALSE, q |-> 0],
                  [fault |-> FALSE, q |-> 2 ^ GuintBits - 1] }
  ELSE { [fault |-> FALSE, q |-> n \div d] }

\* The function faulted, at the division by div, before it reported anything.
Faulted(div) ==
  [phase |-> "fault", div |-> div, new_progress |-> 0, estimating |-> FALSE,
   rate |-> ""]

\* Lines 750-753: formatted_bytes_sec is "-" when bytes_sec is zero, else the
\* formatted size.
FormattedBytesSec(bytes_sec) == IF bytes_sec = 0 THEN "-" ELSE "size"

\* The fetch phase looking at the metadata fetches before the delta parts.
FetchProgress_metadata_first(c, bytes_sec) ==
  IF c.outstanding_metadata_fetches # 0
    THEN { [phase |-> "metadata", div |-> "", new_progress |-> 1,
            estimating |-> TRUE, rate |-> FormattedBytesSec(bytes_sec)] }
  ELSE IF c.total_delta_parts > 0
    THEN { IF d.fault THEN Faulted("total_delta_part_size")
           ELSE [phase |-> "delta", div |-> "", new_progress |-> guint(d.q),
                 estimating |-> FALSE, rate |-> FormattedBytesSec(bytes_sec)]
           : d \in DivOutcomes(guint64(100 * c.bytes_transferred),
                               c.total_delta_part_size) }
  ELSE { IF d.fault THEN Faulted("requested")
         ELSE [phase |-> "objects", div |-> "", new_progress |-> d.q,
               estimating |-> FALSE, rate |-> FormattedBytesSec(bytes_sec)]
         : d \in DivOutcomes(guint(100 * c.fetched), c.requested) }

\* Lines 755-784: the fetch phase, once bytes_sec is computed.
FetchProgress(c, bytes_sec) ==
  IF c.total_delta_parts > 0
    THEN { IF d.fault THEN Faulted("total_delta_part_size")
           ELSE [phase |-> "delta", div |-> "", new_progress |-> guint(d.q),
                 estimating |-> FALSE, rate |-> FormattedBytesSec(bytes_sec)]
           : d \in DivOutcomes(guint64(100 * c.bytes_transferred),
                               c.total_delta_part_size) }
  ELSE IF c.outstanding_metadata_fetches # 0
    THEN { [phase |-> "metadata", div |-> "", new_progress |-> 1,
            estimating |-> TRUE, rate |-> FormattedBytesSec(bytes_sec)] }
  ELSE { IF d.fault THEN Faulted("requested")
         ELSE [phase |-> "objects", div |-> "", new_progress |-> d.q,
               estimating |-> FALSE, rate |-> FormattedBytesSec(bytes_sec)]
         : d \in DivOutcomes(guint(100 * c.fetched), c.requested) }

\* Lines 739-793: the branch taken (the text written to buf), new_progress,
\* estimating and the rate shown, for every outcome of the divisions of the
\* branch.
ComputedProgress(c) ==
  IF c.status # NULL
    THEN { [phase |-> "status", div |-> "", new_progress |-> 0,
            estimating |-> FALSE, rate |-> ""] }
  ELSE IF c.outstanding_fetches # 0
    THEN UNION { IF bytes_sec.fault THEN { Faulted("ellapsed_time") }
                 ELSE FetchProgress(c, bytes_sec.q)
                 : bytes_sec \in DivOutcomes(c.bytes_transferred, c.ellapsed_time) }
  ELSE IF c.outstanding_writes # 0
    THEN { [phase |-> "writing", div |-> "", new_progress |-> 0,
            estimating |-> FALSE, rate |-> ""] }
  ELSE { [phase |-> "scanning", div |-> "", new_progress |-> 0,
          estimating |-> FALSE, rate |-> ""] }

\* progress_cb without the comparison with the last value.
NoClampProgress(new_progress, last_progress) == new_progress

\* Lines 795-796: a value under the last one is replaced by the last one.
ClampProgress(new_progress, last_progress) ==
  IF new_progress < last_progress THEN last_progress ELSE new_progress

\* Lines 969-974 (install) and 1060-1065 (update): the call creates the
\* progress object, connects progress_cb and sets "last_progress" to 0.
progress_new ==
  /\ ~progress.connected
  /\ ~invocation.running
  /\ progress' = [connected |-> TRUE, last_progress |-> 0, finished |-> FALSE]
  /\ reported' = << >>
  /\ invocation' = NoInvocation
  /\ UNCHANGED << storeVars, procVars, lastQuery, histVars, refVars >>

\* progress_cb (lines 701-802): read the counters, compute, clamp, store and
\* call the caller's callback (line 799); a fault ends the process.
progress_cb ==
  /\ progress.connected
  /\ ~invocation.running
  /\ Len(reported) < MaxReports
  /\ \E c \in Counters :
       \E r \in ComputedProgress(c) :
         IF r.phase = "fault"
           THEN /\ progress' = [progress EXCEPT !.connected = FALSE, !.finished = TRUE]
                /\ invocation' = [running |-> FALSE, faulted |-> TRUE, c |-> c,
                                  div |-> r.div]
                /\ UNCHANGED reported
           ELSE /\ progress' = [progress EXCEPT !.last_progress =
                                  ClampProgress(r.new_progress, progress.last_progress)]
                /\ invocation' = [running |-> TRUE, faulted |-> FALSE, c |-> c,
                                  phase |-> r.phase, rate |-> r.rate,
                                  computed |-> r.new_progress,
                                  progress |-> ClampProgress(r.new_progress,
                                                             progress.last_progress),
                                  estimating |-> r.estimating]
                /\ reported' = Append(reported,
                     [phase |-> r.phase,
                      computed |-> r.new_progress,
                      last |-> progress.last_progress,
                      progress |-> ClampProgress(r.new_progress, progress.last_progress),
                      estimating |-> r.estimating])
  /\ UNCHANGED << storeVars, procVars, lastQuery, histVars, refVars >>

\* The caller's callback returns, and with it progress_cb (lines 799-802).
callback_returns ==
  /\ invocation.running
  /\ invocation' = NoInvocation
  /\ UNCHANGED << progress, reported, storeVars, procVars, lastQuery, histVars, refVars >>

\* The operation ends: the progress object is dropped.
progress_done ==
  /\ progress.connected
  /\ ~invocation.running
  /\ progress' = [progress EXCEPT !.connected = FALSE, !.finished = TRUE]
  /\ UNCHANGED << reported, invocation, storeVars, procVars, lastQuery, histVars, refVars >>

(***************************************************************************)
(* Ref strings.  A string is the sequence of its characters; "app",        *)
(* "runtime", "master" and the host's architecture are single characters   *)
(* of the model's alphabet, none of them the separator.                    *)
(***************************************************************************)
\* Longest name, and longest arch or branch, given to flatpak_compose_ref.
MaxNameLen == 2
MaxPartLen == 1

Slash == "/"
Strings(n) == UNION { [1..k -> {"a", Slash}] : k \in 0..n }

\* The arguments of flatpak_compose_ref; arch and branch may be NULL.
ComposeArgs ==
  [ is_app : BOOLEAN,
    name : Strings(MaxNameLen),
    arch_null : BOOLEAN, arch : Strings(MaxPartLen),
    branch_null : BOOLEAN, branch : Strings(MaxPartLen) ]

\* The branch and the arch a NULL argument stands for.
BranchOrDefault(a) == IF a.branch_null THEN << "master" >> ELSE a.branch
ArchOrDefault(a) == IF a.arch_null THEN << flatpak_get_arch >> ELSE a.arch

\* flatpak_is_valid_name: a name is not empty and holds no separator.
flatpak_is_valid_name(name) ==
  name # << >> /\ \A i \in 1..Len(name) : name[i] # Slash

\* The ref string with the branch before the arch.
flatpak_build_ref_swapped(kind, name, branch, arch) ==
  << kind, Slash >> \o name \o << Slash >> \o branch \o << Slash >> \o arch

\* flatpak_build_app_ref, flatpak_build_runtime_ref:
\* "<kind>/<name>/<arch>/<branch>".
flatpak_build_ref(kind, name, branch, arch) ==
  << kind, Slash >> \o name \o << Slash >> \o arch \o << Slash >> \o branch

\* flatpak_compose_ref on strings (lines 949, 1032, 1123): NULL with an error
\* for a name that is not valid, else the ref string.
ComposeRefString(a) ==
  IF ~flatpak_is_valid_name(a.name)
    THEN [ok |-> FALSE, err |-> "InvalidRef"]
  ELSE [ok |-> TRUE,
        s |-> flatpak_build_ref(IF a.is_app THEN "app" ELSE "runtime",
                                a.name, BranchOrDefault(a), ArchOrDefault(a))]

\* g_strsplit (s, "/", -1) (line 313): the pieces of s between the separators.
RECURSIVE SplitAtSlash(_)
SplitAtSlash(s) ==
  IF \A i \in 1..Len(s) : s[i] # Slash THEN << s >>
  ELSE LET i == CHOOSE k \in 1..Len(s) :
                  s[k] = Slash /\ \A j \in 1..(k - 1) : s[j] # Slash
       IN  << SubSeq(s, 1, i - 1) >> \o SplitAtSlash(SubSeq(s, i + 1, Len(s)))

g_strsplit(s) == IF s = << >> THEN << >> ELSE SplitAtSlash(s)

\* flatpak_decompose_ref (line 852): the four parts of a ref string, or NULL
\* with an error when the string has not four parts or its kind is unknown.
flatpak_decompose_ref(full_ref) ==
  LET parts == g_strsplit(full_ref)
  IN  IF Len(parts) # 4 \/ parts[1] \notin { << "app" >>, << "runtime" >> }
         \/ ~flatpak_is_valid_name(parts[2])
        THEN [ok |-> FALSE, err |-> "MalformedRef"]
      ELSE [ok |-> TRUE, parts |-> parts]

\* A caller composes a ref string.
compose_ref ==
  /\ \E a \in ComposeArgs :
       ref_io' = [op |-> "compose", args |-> a, ret |-> ComposeRefString(a)]
  /\ UNCHANGED << storeVars, procVars, lastQuery, progVars, histVars >>

\* The string just composed is decomposed.
decompose_ref ==
  /\ ref_io.op = "compose"
  /\ ref_io.ret.ok
  /\ ref_io' = [op |-> "decompose", args |-> ref_io.args, full_ref |-> ref_io.ret.s,
                ret |-> flatpak_decompose_ref(ref_io.ret.s)]
  /\ UNCHANGED << storeVars, procVars, lastQuery, progVars, histVars >>

(***************************************************************************)
(* The specification.                                                      *)
(***************************************************************************)
Step(p) ==
  \/ StartCall(p)
  \/ Finish(p)
  \/ Cancel(p)
  \/ install_check(p)
  \/ install_pull(p)
  \/ install_deploy(p)
  \/ install_get_ref(p)
  \/ update_check(p)
  \/ update_origin(p)
  \/ update_pull(p)
  \/ update_deploy(p)
  \/ update_get_ref(p)
  \/ bundle_load(p)
  \/ bundle_create_remote(p)
  \/ bundle_ensure_repo(p)
  \/ bundle_pull(p)
  \/ bundle_deploy(p)
  \/ bundle_get_ref(p)
  \/ bundle_out(p)
  \/ uninstall_lock(p)
  \/ uninstall_check(p)
  \/ uninstall_origin(p)
  \/ uninstall_set_active(p)
  \/ uninstall_drop_current(p)
  \/ uninstall_undeploy(p)
  \/ uninstall_remove_ref(p)
  \/ uninstall_release(p)
  \/ uninstall_prune(p)
  \/ uninstall_update_exports(p)
  \/ uninstall_mark_changed(p)

Next ==
  \/ \E p \in Procs : Step(p)
  \/ Publish

Spec == Init /\ [][Next]_vars

\* One caller's transactions, with the update query run between their steps.
QueryNext ==
  \/ Step("p1")
  \/ Publish
  \/ list_installed_refs_for_update
  \/ list_installed_refs
  \/ list_remotes

QuerySpec == Init /\ [][QueryNext]_vars

\* The progress reports of the operations, one after the other.
ProgressNext ==
  \/ progress_new
  \/ progress_cb
  \/ callback_returns
  \/ progress_done

ProgressSpec == Init /\ [][ProgressNext]_vars

\* Ref strings composed and decomposed again.
RefNext ==
  \/ compose_ref
  \/ decompose_ref

RefSpec == Init /\ [][RefNext]_vars

\* Concurrent callers of uninstall only.  A call that is running takes its
\* next step sooner or later: the thread is scheduled, and each FlatpakDir
\* operation it blocks in returns (with its result or with an error).
StartUninstall(p) ==
  /\ StartCall(p)
  /\ call'[p].op = "uninstall"

UninstallRuns(p) ==
  \/ uninstall_lock(p)
  \/ uninstall_check(p)
  \/ uninstall_origin(p)
  \/ uninstall_set_active(p)
  \/ uninstall_drop_current(p)
  \/ uninstall_undeploy(p)
  \/ uninstall_remove_ref(p)
  \/ uninstall_release(p)
  \/ uninstall_prune(p)
  \/ uninstall_update_exports(p)
  \/ uninstall_mark_changed(p)

UninstallNext ==
  \/ \E p \in Procs : StartUninstall(p)
  \/ \E p \in Procs : Finish(p)
  \/ \E p \in Procs : Cancel(p)
  \/ \E p \in Procs : UninstallRuns(p)

FairUninstallSpec ==
  /\ Init
  /\ [][UninstallNext]_vars
  /\ \A p \in Procs : WF_vars(UninstallRuns(p))

(***************************************************************************)
(* The properties.                                                         *)
(***************************************************************************)
\* The call of p has performed the step.
InTrace(p, step) == \E i \in 1..Len(trace[p]) : trace[p][i].step = step

\* The call of p returns in this step.
Returns(p) == pc[p] # "done" /\ pc'[p] = "done"

C2_UninstallNoop ==
  \A p \in Procs :
    ( /\ pc[p] = "done"
      /\ call[p].op = "uninstall"
      /\ InTrace(p, "flatpak_dir_undeploy_all")
      /\ ~loc[p].was_deployed )
    => /\ result[p] = NullRef
       /\ err[p] # NoError
       /\ InTrace(p, "flatpak_dir_mark_changed") => err[p] = NOT_INSTALLED

C2_Witness ==
  \E p \in Procs :
    /\ pc[p] = "done"
    /\ call[p].op = "uninstall"
    /\ InTrace(p, "flatpak_dir_undeploy_all")
    /\ InTrace(p, "flatpak_dir_mark_changed")
    /\ ~loc[p].was_deployed
    /\ err[p] = NOT_INSTALLED

\* C3: when the catalogs of any subset of the configured remotes cannot be
\* listed, flatpak_installation_list_installed_refs_for_update returns no
\* error, and returns exactly the installed refs whose origin was listed and
\* advertises a commit other than the ref's latest commit.
ExpectedUpdates(failed) ==
  { r \in Refs :
      /\ HasDeployData(r)
      /\ origin[r] \in SeqToSet(remotes) \ failed
      /\ Advertised(origin[r], r) # NoCommit
      /\ Advertised(origin[r], r) # repo_refs[<< origin[r], r >>] }

C3_PartialRemoteTolerance ==
  ( /\ lastQuery.op = "list_installed_refs_for_update"
    /\ ~lastQuery.remotes_fail
    /\ ~lastQuery.installed_fail )
  => IF lastQuery.ret.err # NoError THEN FALSE
     ELSE LET res == lastQuery.ret.res
          IN  /\ { res[i].ref : i \in 1..Len(res) } = ExpectedUpdates(lastQuery.failed)
              /\ Len(res) = Cardinality(ExpectedUpdates(lastQuery.failed))
              /\ \A i \in 1..Len(res) :
                   /\ ~res[i].null
                   /\ res[i].commit = active[res[i].ref]
                   /\ res[i].origin = origin[res[i].ref]

C3_Witness ==
  /\ lastQuery.op = "list_installed_refs_for_update"
  /\ ~lastQuery.remotes_fail
  /\ ~lastQuery.installed_fail
  /\ lastQuery.failed # {}
  /\ Cardinality(SeqToSet(remotes) \ lastQuery.failed) >= 2
  /\ lastQuery.ret.err = NoError
  /\ Len(lastQuery.ret.res) > 0

\* C4: within one operation, the percent progress_cb passes to the caller's
\* callback never decreases from one call to the next.
C4_MonotonicProgress ==
  \A i \in 1..(Len(reported) - 1) : reported[i].progress <= reported[i + 1].progress

C4_Witness ==
  \E i \in 2..Len(reported) :
    /\ reported[i - 1].progress > 0
    /\ reported[i].computed < reported[i - 1].progress
    /\ reported[i].progress = reported[i - 1].progress

\* C5: after a successful install of a ref that was not installed and a
\* successful uninstall of it, the ref has no deploy directory and the
\* current ref of its name is what it was before the install.
C5_InstallUninstallInverse ==
  \A p \in Procs :
    ( /\ pc[p] = "done"
      /\ call[p].op = "uninstall"
      /\ err[p] = NoError
      /\ last_install.undone_by = p )
    => /\ loc[p].ref \notin deploy_base
       /\ active[loc[p].ref] = NoCommit
       /\ current[loc[p].ref[2]] = last_install.cur

\* C6: when uninstall has returned, on whichever path, its caller does not
\* hold the installation's lock.
C6_LockReleased ==
  \A p \in Procs : (pc[p] = "done" /\ call[p].op = "uninstall") => lock # p

C6_Witness ==
  \E p \in Procs :
    /\ pc[p] = "done"
    /\ call[p].op = "uninstall"
    /\ InTrace(p, "flatpak_dir_lock")
    /\ ~InTrace(p, "glnx_release_lock_file")
    /\ err[p] \notin {NoError, NOT_INSTALLED}
    /\ lock # p

\* C7: no two transactions are at the same time in a step that changes the
\* deploy directories or the active or current pointers.
MutatingSteps ==
  { "install_deploy", "bundle_deploy", "update_deploy",
    "uninstall_set_active", "uninstall_drop_current", "uninstall_undeploy" }

C7_MutualExclusion ==
  \A p \in Procs : \A q \in Procs \ {p} :
    ~(pc[p] \in MutatingSteps /\ pc[q] \in MutatingSteps)

\* C8: install, bundle install and update return either an InstalledRef and
\* no error, or NULL and an error.
C8_ResultOrError ==
  \A p \in Procs :
    (pc[p] = "done" /\ call[p].op \in {"install", "install_bundle", "update"})
    => \/ result[p] # NullRef /\ ~result[p].null /\ err[p] = NoError
       \/ result[p] = NullRef /\ err[p] # NoError

C8_Witness ==
  \E p \in Procs : \E q \in Procs \ {p} :
    /\ pc[p] = "done" /\ call[p].op = "install_bundle"
    /\ result[p] # NullRef /\ err[p] = NoError
    /\ pc[q] = "done" /\ call[q].op = "install_bundle"
    /\ result[q] = NullRef /\ err[q] # NoError /\ loc[q].added_remote

\* The test of the deploy directory by install or bundle install found (or,
\* with any_token FALSE, found with a cancellable that had not fired) the
\* directory: the call returns AlreadyInstalled from the test, having done
\* nothing.
FailsFast(p, any_token) ==
  ( /\ pc[p] \in {"install_check", "bundle_load"}
    /\ pc'[p] # pc[p]
    /\ loc'[p].checked
    /\ loc'[p].base_existed
    /\ any_token \/ ~loc'[p].was_cancelled )
  => /\ pc'[p] = "done"
     /\ err'[p] = ALREADY_INSTALLED
     /\ result'[p] = NullRef
     /\ trace'[p] = << >>
     /\ ~loc'[p].dir_clone
     /\ ~loc'[p].added_remote
     /\ storeVars' = storeVars

\* C9 (amended): install and bundle install of a ref whose deploy directory
\* exists, with a cancellable that has not fired when the directory is
\* tested, fail with AlreadyInstalled before any side effect.
C9_AlreadyInstalledUnlessCancelled ==
  [][ \A p \in Procs : FailsFast(p, FALSE) ]_vars

C9_Witness ==
  \E p \in Procs :
    /\ pc[p] = "done"
    /\ call[p].op \in {"install", "install_bundle"}
    /\ loc[p].checked /\ loc[p].base_existed /\ ~loc[p].was_cancelled
    /\ err[p] = ALREADY_INSTALLED

\* C9 as stated: whatever the state of the cancellable.
C9_AlreadyInstalled ==
  [][ \A p \in Procs : FailsFast(p, TRUE) ]_vars

\* C10: update of a ref without a deploy directory returns NotInstalled from
\* the test of the directory: no origin resolved, no clone made, no pull or
\* deploy done, the installation unchanged.
C10_UpdateNotInstalled ==
  [][ \A p \in Procs :
        ( /\ pc[p] = "update_check"
          /\ pc'[p] # pc[p]
          /\ CallRef(p) \notin deploy_base )
        => /\ pc'[p] = "done"
           /\ err'[p] = NOT_INSTALLED
           /\ result'[p] = NullRef
           /\ trace'[p] = << >>
           /\ ~loc'[p].dir_clone
           /\ loc'[p].remote_name = NULL
           /\ storeVars' = storeVars ]_vars

C10_Witness ==
  \E p \in Procs :
    /\ pc[p] = "done"
    /\ call[p].op = "update"
    /\ loc[p].checked /\ ~loc[p].base_existed
    /\ err[p] = NOT_INSTALLED
    /\ trace[p] = << >>

\* C11: when a mutating operation has returned AlreadyInstalled or
\* NotInstalled, and no other transaction ran meanwhile, the persisted state
\* is what it was when the call started.
C11_PreconditionNoChange ==
  ( /\ pc["p1"] = "done"
    /\ err["p1"] \in {ALREADY_INSTALLED, NOT_INSTALLED} )
  => Persisted = before["p1"].state

\* The update query returned a list.
UpdateQueryReturned ==
  /\ lastQuery.op = "list_installed_refs_for_update"
  /\ lastQuery.ret.err = NoError

\* The refs of the list the update query returned.
UpdateQueryRefs ==
  { lastQuery.ret.res[i].ref : i \in 1..Len(lastQuery.ret.res) }

\* C12: an installed ref is in the list of the update query exactly when its
\* origin remote was listed, advertises the ref, and advertises a commit other
\* than the ref's latest commit; what other remotes advertise for the same ref
\* does not count, and no ref is listed twice.
C12_UpdateDiffExact ==
  UpdateQueryReturned =>
    /\ \A r \in UpdateQueryRefs : HasDeployData(r)
    /\ \A i \in 1..Len(lastQuery.ret.res) : \A j \in 1..Len(lastQuery.ret.res) :
         lastQuery.ret.res[i].ref = lastQuery.ret.res[j].ref => i = j
    /\ \A r \in Refs :
         HasDeployData(r) =>
           ( r \in UpdateQueryRefs
             <=> /\ origin[r] \in SeqToSet(remotes)
                 /\ origin[r] \notin lastQuery.failed
                 /\ Advertised(origin[r], r) # NoCommit
                 /\ Advertised(origin[r], r) # InstalledRefOf(r).latest_commit )

C12_Witness ==
  /\ UpdateQueryReturned
  /\ \E r \in Refs : \E other \in SeqToSet(remotes) \ lastQuery.failed :
       /\ HasDeployData(r)
       /\ other # origin[r]
       /\ Advertised(other, r) \notin {NoCommit, InstalledRefOf(r).latest_commit}
       /\ r \notin UpdateQueryRefs

\* C13: when listing the remotes or listing the installed refs fails, the
\* update query returns an error and no list.
C13_UpdateQueryFailsWhole ==
  ( /\ lastQuery.op = "list_installed_refs_for_update"
    /\ lastQuery.remotes_fail \/ lastQuery.installed_fail )
  => IF lastQuery.ret.err = NoError THEN FALSE ELSE lastQuery.ret.res = NULL

C13_Witness ==
  /\ lastQuery.op = "list_installed_refs_for_update"
  /\ lastQuery.installed_fail
  /\ lastQuery.failed # {} /\ lastQuery.failed # SeqToSet(remotes)
  /\ deploy_base # {}
  /\ lastQuery.ret.err # NoError

\* The call of p is an update with no flag that has returned successfully,
\* and the remotes advertised the same commits throughout the call.
UpdatedUndisturbed(p) ==
  /\ pc[p] = "done"
  /\ call[p].op = "update"
  /\ ~call[p].no_pull /\ ~call[p].no_deploy
  /\ err[p] = NoError
  /\ before[p].published = published

\* C14: an installed ref whose origin advertises a commit other than the
\* ref's latest commit is in the list of the update query (when every remote
\* was listed); and the InstalledRef a successful update without flags returns
\* has the commit the origin advertises.
C14_UpdateReachesAdvertised ==
  /\ (UpdateQueryReturned /\ lastQuery.failed = {}) =>
       \A r \in Refs :
         ( /\ HasDeployData(r)
           /\ origin[r] \in SeqToSet(remotes)
           /\ Advertised(origin[r], r) \notin {NoCommit, repo_refs[<< origin[r], r >>]} )
         => r \in UpdateQueryRefs
  /\ UpdatedUndisturbed("p1") =>
       /\ ~result["p1"].null
       /\ result["p1"].ref = loc["p1"].ref
       /\ result["p1"].commit = Advertised(loc["p1"].remote_name, loc["p1"].ref)
       /\ result["p1"].latest_commit = result["p1"].commit

\* An update has moved the ref from one commit to the advertised one, and the
\* update query run after it no longer lists the ref.
C14_Witness ==
  /\ UpdatedUndisturbed("p1")
  /\ before["p1"].state[3][loc["p1"].ref] = "c1"
  /\ result["p1"].commit = "c2"
  /\ UpdateQueryReturned
  /\ lastQuery.failed = {}
  /\ loc["p1"].ref \notin UpdateQueryRefs

Invoked == invocation.running \/ invocation.faulted

\* The counters put progress_cb in the fetch phase, and no division of that
\* phase other than the one by the elapsed seconds has a zero divisor.
FetchPhaseCounters(c) ==
  /\ c.status = NULL
  /\ c.outstanding_fetches > 0
  /\ c.total_delta_parts > 0 => c.total_delta_part_size # 0
  /\ (c.total_delta_parts = 0 /\ c.outstanding_metadata_fetches = 0) => c.requested # 0

\* C16: in the fetch phase with zero elapsed whole seconds, progress_cb does
\* not fault: it calls the caller's callback, and the rate it shows is "-".
C16_ZeroElapsedNoFault ==
  ( /\ Invoked
    /\ FetchPhaseCounters(invocation.c)
    /\ invocation.c.ellapsed_time = 0 )
  => /\ invocation.running
     /\ invocation.rate = "-"

\* C17: every percent passed to the caller's callback is in 0..100.
C17_PercentInRange ==
  \A i \in 1..Len(reported) : reported[i].progress \in 0..100

\* The phase the priority order gives for the counters.
PhaseByPriority(c) ==
  CASE c.status # NULL -> "status"
    [] c.status = NULL /\ c.outstanding_fetches > 0 /\ c.total_delta_parts > 0 -> "delta"
    [] c.status = NULL /\ c.outstanding_fetches > 0 /\ c.total_delta_parts = 0
         /\ c.outstanding_metadata_fetches > 0 -> "metadata"
    [] c.status = NULL /\ c.outstanding_fetches > 0 /\ c.total_delta_parts = 0
         /\ c.outstanding_metadata_fetches = 0 -> "objects"
    [] c.status = NULL /\ c.outstanding_fetches = 0 /\ c.outstanding_writes > 0 -> "writing"
    [] OTHER -> "scanning"

C19_CancelledAtCheck ==
  \A p \in Procs :
    ( /\ pc[p] = "done"
      /\ loc[p].checked
      /\ loc[p].was_cancelled )
    => /\ err[p] = CANCELLED
       /\ result[p] = NullRef

\* C20: the describe call at the end of install, update and bundle install
\* produces no InstalledRef (and does not fault) for a ref without deploy
\* data: the call fails with NotFound.
C20_DescribeNeedsDeployData ==
  \A p \in Procs :
    ( /\ pc[p] \in {"done", "crashed"}
      /\ call[p].op \in {"install", "update", "install_bundle"}
      /\ loc[p].ref # NoRef
      /\ ~HasDeployData(loc[p].ref)
      /\ pc[p] = "done" => err[p] = NoError )
    => /\ pc[p] = "done"
       /\ result[p] = NullRef
       /\ err[p] = NOT_FOUND

\* The InstalledRef says it is current exactly when it is an app whose
\* name's current link names it.
CurrentFlagExact(ir) ==
  ir.is_current <=> ( /\ ir.ref[1] = "app"
                      /\ current[ir.ref[2]] # NoRef
                      /\ current[ir.ref[2]] = ir.ref )

\* The elements of the list a listing that has just returned gave its caller.
ListedRefs ==
  IF lastQuery.op = "none" THEN << >>
  ELSE IF lastQuery.ret.err # NoError THEN << >>
  ELSE lastQuery.ret.res

AddedAt(r) == CHOOSE i \in 1..Len(remotes) : remotes[i] = r

\* names holds each configured remote once, a remote of higher priority
\* before one of lower priority, and of two remotes of equal priority the one
\* added earlier first.
OrderedByPrio(names) ==
  /\ Len(names) = Len(remotes)
  /\ SeqToSet(names) = SeqToSet(remotes)
  /\ \A i \in 1..Len(names) : \A j \in 1..Len(names) :
       i < j => \/ RemotePrio(names[i]) > RemotePrio(names[j])
                \/ /\ RemotePrio(names[i]) = RemotePrio(names[j])
                   /\ AddedAt(names[i]) < AddedAt(names[j])

\* C22: flatpak_installation_list_remotes returns the configured remotes by
\* descending priority, remotes of equal priority in the order they were
\* added; the update query visits the remotes in that same order.
C22_RemotesOrder ==
  /\ (lastQuery.op = "list_remotes" /\ ListedRefs # << >>) =>
       OrderedByPrio([ i \in 1..Len(ListedRefs) |-> ListedRefs[i].name ])
  /\ (lastQuery.op = "list_installed_refs_for_update" /\ ~lastQuery.remotes_fail) =>
       /\ OrderedByPrio(lastQuery.visited)
       /\ lastQuery.visited = [ i \in 1..Len(flatpak_installation_list_remotes) |->
                                  flatpak_installation_list_remotes[i].name ]

\* The listing holds a remote added first after one of higher priority added
\* later, and before one of its own priority added later.
C22_Witness ==
  /\ lastQuery.op = "list_remotes"
  /\ Len(ListedRefs) = 3
  /\ ListedRefs[1].name = "r2"
  /\ ListedRefs[2].name = "r1"
  /\ ListedRefs[3].name \in AllOriginNames

\* The call of p has touched the change marker: by flatpak_dir_mark_changed,
\* or inside a deploy that checked a commit out.
Touched(p) ==
  \/ InTrace(p, "flatpak_dir_mark_changed")
  \/ InTrace(p, "flatpak_dir_deploy_install")
  \/ InTrace(p, "flatpak_dir_deploy_update")

\* The deploy tree, the pointers and the remotes differ from what they were
\* when the call of p started.
ChangedInstallation(p) ==
  << deploy_base, deployed, active, origin, current, remotes >>
    # SubSeq(before[p].state, 1, 6)

MutatingCalls ==
  { "flatpak_dir_pull", "flatpak_dir_deploy_install", "flatpak_dir_deploy_update",
    "flatpak_pull_from_bundle", "flatpak_dir_create_origin_remote",
    "ostree_repo_remote_delete", "flatpak_dir_set_active",
    "flatpak_dir_drop_current_ref", "flatpak_dir_undeploy_all",
    "flatpak_dir_remove_ref", "flatpak_dir_prune", "flatpak_dir_cleanup_removed",
    "flatpak_dir_update_exports", "flatpak_dir_mark_changed" }

\* C24: every mutation a transaction has made went through its
\* flatpak_dir_clone, none through priv->dir.
C24_MutationsThroughClone ==
  \A p \in Procs : \A i \in 1..Len(trace[p]) :
    trace[p][i].step \in MutatingCalls => trace[p][i].via = "clone"

\* The parts the arguments of a composition stand for.
PartsOf(a) ==
  << << IF a.is_app THEN "app" ELSE "runtime" >>, a.name,
     ArchOrDefault(a), BranchOrDefault(a) >>

\* The decomposition that has just been made gave back the parts composed.
RoundTrip ==
  /\ ref_io.ret.ok
  /\ ref_io.ret.parts = PartsOf(ref_io.args)

NoSlash(s) == \A i \in 1..Len(s) : s[i] # Slash

UpdatePassed(p) ==
  /\ call[p].op = "update"
  /\ \/ pc[p] \in {"update_get_ref", "crashed"}
     \/ pc[p] = "done" /\ err[p] = NoError

\* C26: an update that got past flatpak_dir_update has pulled exactly when
\* NO_PULL was not set and has deployed exactly when NO_DEPLOY was not set;
\* with NO_DEPLOY, the InstalledRef it returns has the commit that was active
\* when the call started.
C26_UpdateFlags ==
  UpdatePassed("p1") =>
    /\ InTrace("p1", "flatpak_dir_pull") <=> ~call["p1"].no_pull
    /\ InTrace("p1", "flatpak_dir_deploy_update") <=> ~call["p1"].no_deploy
    /\ (pc["p1"] = "done" /\ call["p1"].no_deploy) =>
         result["p1"].commit = before["p1"].state[3][loc["p1"].ref]

\* An update with NO_DEPLOY alone has pulled the newer commit and returned
\* the ref at the commit it had.
C26_Witness ==
  /\ pc["p1"] = "done"
  /\ call["p1"].op = "update"
  /\ call["p1"].no_deploy /\ ~call["p1"].no_pull
  /\ err["p1"] = NoError
  /\ InTrace("p1", "flatpak_dir_pull")
  /\ ~InTrace("p1", "flatpak_dir_deploy_update")
  /\ result["p1"].commit = "c1"
  /\ result["p1"].latest_commit = "c2"

\* The steps of uninstall in the order of the source (lines 1128-1181); the
\* test of the deploy directory, between the second and the third, is kept in
\* the call's locals.
UninstallOrder ==
  << "flatpak_dir_clone", "flatpak_dir_lock", "flatpak_dir_get_origin",
     "flatpak_dir_set_active", "flatpak_dir_drop_current_ref",
     "flatpak_dir_undeploy_all", "flatpak_dir_remove_ref",
     "glnx_release_lock_file", "flatpak_dir_prune", "flatpak_dir_cleanup_removed",
     "flatpak_dir_update_exports", "flatpak_dir_mark_changed" >>

Rank(step) == CHOOSE k \in 1..Len(UninstallOrder) : UninstallOrder[k] = step

\* The steps an uninstall may leave out: the drop of the current link and
\* the regeneration of the exports.
OptionalSteps == { "flatpak_dir_drop_current_ref", "flatpak_dir_update_exports" }

\* The steps of the uninstall of p so far are in the order of UninstallOrder,
\* and none but an optional one was left out before the last of them.
InUninstallOrder(p) ==
  /\ \A i \in 1..Len(trace[p]) : trace[p][i].step \in SeqToSet(UninstallOrder)
  /\ \A i \in 1..Len(trace[p]) : \A j \in 1..Len(trace[p]) :
       i < j => Rank(trace[p][i].step) < Rank(trace[p][j].step)
  /\ \A i \in 1..Len(trace[p]) : \A k \in 1..Len(UninstallOrder) :
       ( /\ k < Rank(trace[p][i].step)
         /\ UninstallOrder[k] \notin OptionalSteps )
       => InTrace(p, UninstallOrder[k])

\* C27: the steps of an uninstall occur in the order lock, test of the deploy
\* directory, origin, active link, current link, deployed commits, catalog
\* entry (under the origin resolved), release, prune, cleanup, exports, mark
\* changed; the lock is held from the test to the removal of the catalog
\* entry, and is not held from the prune on.
C27_UninstallOrder ==
  \A p \in Procs :
    call[p].op = "uninstall" =>
      /\ InUninstallOrder(p)
      /\ loc[p].checked => InTrace(p, "flatpak_dir_lock")
      /\ InTrace(p, "flatpak_dir_get_origin") => loc[p].checked
      /\ InTrace(p, "flatpak_dir_drop_current_ref") => loc[p].ref[1] = "app"
      /\ InTrace(p, "flatpak_dir_update_exports") => loc[p].ref[1] = "app"
      /\ InTrace(p, "flatpak_dir_remove_ref") => loc[p].remote_name # NULL
      /\ pc[p] \in { "uninstall_check", "uninstall_origin", "uninstall_set_active",
                     "uninstall_drop_current", "uninstall_undeploy",
                     "uninstall_remove_ref", "uninstall_release" } => lock = p
      /\ pc[p] \in { "uninstall_prune", "uninstall_update_exports",
                     "uninstall_mark_changed", "done" } => lock # p

\* An uninstall of the current app has returned having made every step.
C27_Witness ==
  \E p \in Procs :
    /\ pc[p] = "done"
    /\ call[p].op = "uninstall"
    /\ err[p] = NoError
    /\ Len(trace[p]) = Len(UninstallOrder)
    /\ \A k \in 1..Len(UninstallOrder) : trace[p][k].step = UninstallOrder[k]

\* C28: an uninstall that was not cancelled and has reached the prune (it
\* has released the lock) goes on past the prune and the cleanup, whether
\* they fail or not.
C28_PruneNotFatal ==
  \A p \in Procs :
    ( /\ pc[p] = "done"
      /\ call[p].op = "uninstall"
      /\ ~cancel[p]
      /\ InTrace(p, "glnx_release_lock_file") )
    => InTrace(p, "flatpak_dir_cleanup_removed")

\* C29: an uninstall that does not get the lock returns from that step with
\* the error of the lock, the deploy directory not tested, and the
\* installation (pointers, deploy directories, catalog, change marker, lock)
\* as it was.
C29_LockFailureReturns ==
  [][ \A p \in Procs :
        ( /\ pc[p] = "uninstall_lock"
          /\ pc'[p] # pc[p]
          /\ lock' # p )
        => /\ pc'[p] = "done"
           /\ result'[p] = NullRef
           /\ err'[p] \in {BUSY, CANCELLED, IO_ERROR}
           /\ ~loc'[p].checked
           /\ ~InTrace(p, "flatpak_dir_lock")'
           /\ storeVars' = storeVars ]_vars

\* An uninstall has returned Busy while another caller held the lock.
C29_Witness ==
  \E p \in Procs :
    /\ pc[p] = "done"
    /\ call[p].op = "uninstall"
    /\ err[p] = BUSY
    /\ trace[p] = << [step |-> "flatpak_dir_clone", via |-> "self"] >>
    /\ ~loc[p].checked
    /\ lock \in Procs \ {p}

\* C30: a step of an uninstall changes the current links only by clearing
\* the link of the name of an app ref that the link names; an uninstall of a
\* runtime, or of an app that is not its name's current ref, leaves every
\* current link as it is.
C30_DropCurrentOnlyOwn ==
  [][ \A p \in Procs :
        ( /\ call[p].op = "uninstall"
          /\ pc'[p] # pc[p]
          /\ current' # current )
        => /\ loc[p].ref[1] = "app"
           /\ current[loc[p].ref[2]] = loc[p].ref
           /\ current' = [current EXCEPT ![loc[p].ref[2]] = NoRef] ]_vars

\* An uninstall of an app that was not the current ref of its name has
\* removed it and returned, the current link still naming the other ref.
C30_Witness ==
  \E p \in Procs :
    /\ pc[p] = "done"
    /\ call[p].op = "uninstall"
    /\ err[p] = NoError
    /\ loc[p].ref = AppMaster
    /\ InTrace(p, "flatpak_dir_undeploy_all")
    /\ ~InTrace(p, "flatpak_dir_drop_current_ref")
    /\ current["N"] = AppBeta

C32_LatestAbsentTolerated ==
  [][ \A p \in Procs :
        ( /\ pc[p] \in {"install_get_ref", "update_get_ref", "bundle_get_ref"}
          /\ pc'[p] # pc[p]
          /\ HasDeployData(loc[p].ref)
          /\ flatpak_dir_read_latest(origin[loc[p].ref], loc[p].ref) = NoCommit )
        => /\ pc'[p] \in {"done", "bundle_out"}
           /\ ~result'[p].null
           /\ result'[p].ref = loc[p].ref
           /\ result'[p].commit = active[loc[p].ref]
           /\ result'[p].latest_commit = NoCommit
           /\ err'[p] = NoError ]_vars

\* An install has returned an InstalledRef with a commit and no latest
\* commit.
C32_Witness ==
  \E p \in Procs :
    /\ pc[p] = "done"
    /\ call[p].op \in {"install", "update", "install_bundle"}
    /\ err[p] = NoError
    /\ ~result[p].null
    /\ result[p].commit # NoCommit
    /\ result[p].latest_commit = NoCommit

\* The steps in which a call pulls, deploys or undeploys.
PullDeployWork ==
  {"install_pull", "install_deploy", "update_pull", "update_deploy",
   "bundle_pull", "bundle_deploy", "uninstall_set_active",
   "uninstall_drop_current", "uninstall_undeploy", "uninstall_remove_ref",
   "uninstall_prune"}

\* C33: every call of install, update, install_bundle and uninstall does its
\* pull and deploy work with a main context of its own pushed as the thread
\* default, and returns with that context popped.
C33_PrivateContext ==
  \A p \in Procs :
    /\ pc[p] \in PullDeployWork => loc[p].main_context
    /\ pc[p] = "done" => ~loc[p].main_context

\* C33 as the code has it: install and update do their pull and deploy (and
\* the description of the result) with a main context of their own pushed,
\* install_bundle and uninstall push none, and every call that has returned
\* has no context of its own pushed any more.
C33_ContextBalanced ==
  \A p \in Procs :
    /\ pc[p] \in {"install_pull", "install_deploy", "install_get_ref",
                  "update_pull", "update_deploy", "update_get_ref"}
         => loc[p].main_context
    /\ call[p].op \in {"install_bundle", "uninstall"} => ~loc[p].main_context
    /\ pc[p] = "done" => ~loc[p].main_context

\* An install or update has returned an error after it had pushed its main
\* context, and another has returned its result after it had.
C33_Witness ==
  /\ \E p \in Procs :
       /\ pc[p] = "done"
       /\ call[p].op \in {"install", "update"}
       /\ InTrace(p, "g_main_context_push_thread_default")
       /\ err[p] # NoError
  /\ \E p \in Procs :
       /\ pc[p] = "done"
       /\ call[p].op \in {"install", "update"}
       /\ InTrace(p, "g_main_context_push_thread_default")
       /\ err[p] = NoError

UninstallLocked ==
  {"uninstall_check", "uninstall_origin", "uninstall_set_active",
   "uninstall_drop_current", "uninstall_undeploy", "uninstall_remove_ref",
   "uninstall_release"}

\* C35: of two uninstall calls of the same ref that have both returned, at
\* most one has returned success; and each makes its test of the deploy
\* directory and its removals holding the lock, so never both at once.
C35_OneUninstallWins ==
  /\ \A p, q \in Procs :
       ( /\ p # q
         /\ pc[p] = "done" /\ pc[q] = "done"
         /\ call[p].op = "uninstall" /\ call[q].op = "uninstall"
         /\ loc[p].ref = loc[q].ref )
       => (err[p] # NoError \/ err[q] # NoError)
  /\ \A p \in Procs : pc[p] \in UninstallLocked => lock = p

\* p1 called uninstall of a ref that was installed when the call started,
\* took the lock and found no deploy directory, and the other caller's
\* uninstall of the same ref has returned success.
C35_Witness ==
  \E q \in Procs \ {"p1"} :
    /\ pc["p1"] = "done" /\ pc[q] = "done"
    /\ call["p1"].op = "uninstall" /\ call[q].op = "uninstall"
    /\ loc["p1"].ref = loc[q].ref
    /\ loc["p1"].ref \in before["p1"].state[1]
    /\ InTrace("p1", "flatpak_dir_lock")
    /\ err["p1"] = NOT_INSTALLED
    /\ err[q] = NoError

\* C36: a step of an install_bundle call removes no remote but the one this
\* call created, and only at out: with no result; so every other remote, those
\* of a concurrent install_bundle included, is still configured after the step.
C36_RollbackOwnRemoteOnly ==
  [][ \A p \in Procs :
        ( /\ call[p].op = "install_bundle"
          /\ pc'[p] # pc[p] )
        => \A r \in SeqToSet(remotes) \ SeqToSet(remotes') :
             /\ pc[p] = "bundle_out"
             /\ result[p] = NullRef
             /\ loc[p].added_remote
             /\ r = loc[p].remote ]_vars

\* Two install_bundle calls of the same ref have each created a remote; one
\* has failed and removed its own, and the other's is still configured.
C36_Witness ==
  \E p, q \in Procs :
    /\ p # q
    /\ call[p].op = "install_bundle" /\ call[q].op = "install_bundle"
    /\ loc[p].ref = loc[q].ref
    /\ pc[p] = "done" /\ err[p] # NoError
    /\ InTrace(p, "ostree_repo_remote_delete")
    /\ loc[p].remote \notin SeqToSet(remotes)
    /\ loc[q].added_remote
    /\ loc[q].remote # loc[p].remote
    /\ loc[q].remote \in SeqToSet(remotes)
    /\ \A i \in 1..Len(ConfiguredRemotes) : ConfiguredRemotes[i] \in SeqToSet(remotes)

\* C37: an uninstall that has cleared the active link and then failed
\* before the touch of the change marker leaves everything it did in place:
\* the active link is cleared, the current link it dropped is dropped, the
\* deploy directory it removed is gone, the local ref it removed is gone, and
\* the change marker is as it was when the call started.
C37_NoCompensation ==
  ( /\ pc["p1"] = "done"
    /\ call["p1"].op = "uninstall"
    /\ err["p1"] # NoError
    /\ InTrace("p1", "flatpak_dir_set_active")
    /\ ~InTrace("p1", "flatpak_dir_mark_changed") )
  => /\ active[loc["p1"].ref] = NoCommit
     /\ InTrace("p1", "flatpak_dir_drop_current_ref")
          => current[call["p1"].name] = NoRef
     /\ InTrace("p1", "flatpak_dir_undeploy_all")
          => /\ loc["p1"].ref \notin deploy_base
             /\ deployed[loc["p1"].ref] = {}
     /\ ~InTrace("p1", "flatpak_dir_undeploy_all")
          => loc["p1"].ref \in deploy_base
     /\ InTrace("p1", "flatpak_dir_remove_ref")
          => repo_refs[<<loc["p1"].remote_name, loc["p1"].ref>>] = NoCommit
     /\ changed = before["p1"].state[7]

\* An uninstall has made all four removals and has failed at the prune or at
\* the exports, before the touch of the change marker.
C37_Witness ==
  /\ pc["p1"] = "done"
  /\ call["p1"].op = "uninstall"
  /\ err["p1"] # NoError
  /\ InTrace("p1", "flatpak_dir_set_active")
  /\ InTrace("p1", "flatpak_dir_drop_current_ref")
  /\ InTrace("p1", "flatpak_dir_undeploy_all")
  /\ InTrace("p1", "flatpak_dir_remove_ref")
  /\ ~InTrace("p1", "flatpak_dir_mark_changed")
  /\ InTrace("p1", "glnx_release_lock_file")

\* C38: with every running call scheduled and every step terminating, a
\* caller of uninstall that holds the lock releases it, and every uninstall
\* that has been called returns.
C38_LockReleasedAllReturn ==
  \A p \in Procs :
    /\ (lock = p) ~> (lock # p)
    /\ (call[p].op = "uninstall" /\ InCall(p)) ~> (pc[p] = "done")

\* Both callers' uninstalls have taken the lock, one after the other, and
\* have returned, and the lock is free.
C38_Witness ==
  /\ \A p \in Procs :
       /\ pc[p] = "done"
       /\ call[p].op = "uninstall"
       /\ InTrace(p, "flatpak_dir_lock")
  /\ lock = NoLock

=============================================================================
